---- MODULE Spec2Model ----
(***************************************************************************)
(* A model of the IRIS gaze pipeline:                                      *)
(*   - the real-time frame loop of eye_tracker.py (wink detector, gaze     *)
(*     stabilizer, binary output channel);                                 *)
(*   - the calibration session of calibrate.py (target collection,         *)
(*     range regression, apply / redo / live verification).                *)
(*                                                                         *)
(* Floating-point quantities are carried as fixed-point integers:          *)
(*   landmark coordinates     in units of 1/NoseScale  (1e-5),             *)
(*   normalized axis values   in units of 1/NormScale  (1e-3),             *)
(*   screen coordinates       in units of 1/PxScale px (0.1 px),           *)
(*   eye-aspect ratios        as the pair (vertical, horizontal).          *)
(* Products are truncated toward zero.  Diagnostics written to stderr are  *)
(* not part of the model.                                                  *)
(***************************************************************************)
EXTENDS Integers, Sequences, FiniteSets, TLC

VARIABLES
    \* ---- eye_tracker.py: main() locals that live across frames
    screen_width, screen_height,
    ema_x, ema_y,
    ema_nose_x, ema_nose_y,
    blink_counter, is_blinking,
    eyes_closed_counter, long_blink_triggered,
    \* ---- eye_tracker.py: sys.stdout.buffer
    stdout_buffer,      \* bytes written and not yet flushed
    out,                \* messages flushed by the latest loop iteration
    running,            \* the while-True loop is still alive
    \* ---- observation of the run (history, not program state)
    frames,             \* loop iterations so far
    last,               \* what the latest iteration was given
    run,                \* consecutive wink frames among processed face frames
    eyeRun,             \* consecutive processed face frames with only the left
                        \* (only the right) eye closed
    lastGaze,           \* the coordinate of the latest GazeUpdate put on the wire
    eventsSinceOpen,    \* events emitted since the last both-eyes-open frame
    \* ---- which entry point this run executes
    program,            \* "eye_tracker" | "calibrate" | "calibrate_test"
    \* ---- calibrate.py
    app,                \* the CalibrationApp object's fields
    test_app,           \* the LiveTestApp object's fields
    tk,                 \* the Tk root: key bindings, pending after() timers, canvas
    fs,                 \* the files the tool reads and writes
    now,                \* time.time(), in ms
    \* ---- observation of the session (history, not program state)
    srcChanges,         \* changes of the raw-nose file by its writer so far
    introRefreshes,     \* redraws of the intro screen by its refresh timer
    redos,              \* redo actions so far
    liveTicks           \* live-verification ticks so far

trackerVars == <<screen_width, screen_height, ema_x, ema_y, ema_nose_x, ema_nose_y,
                 blink_counter, is_blinking, eyes_closed_counter, long_blink_triggered,
                 stdout_buffer, out, running, frames, last, run, eyeRun, lastGaze, eventsSinceOpen>>

calVars == <<app, test_app, tk, fs, now, srcChanges, introRefreshes, redos, liveTicks>>

vars == <<trackerVars, program, calVars>>

-----------------------------------------------------------------------------
(* Fixed-point scales *)
NoseScale == 100000
NormScale == 1000
PxScale == 10

(* Bounds of the model *)
MaxFramesWink == 17
MaxFramesGaze == 3
MaxFramesHold == 10
MaxFramesSettle == 64

-----------------------------------------------------------------------------
(* eye_tracker.py constants *)
TYPE_GAZE == 1
TYPE_BLINK == 2
TYPE_STATUS == 3
EYE_AR_THRESH == 25          \* 0.25, in hundredths
EYE_AR_CONSEC_FRAMES == 2
LONG_BLINK_THRESH == 8
nose_x_min == 51740          \* 0.5174
nose_x_max == 59670          \* 0.5967
nose_y_min == 35420          \* 0.3542
nose_y_max == 39100          \* 0.3910
DEADZONE == 80               \* 0.08
SNAP_DIST == 8               \* px
EMA_NOSE_PCT == 10           \* 0.10
CURSOR_PCT == 15             \* 0.15

Abs(a) == IF a >= 0 THEN a ELSE -a
Min2(a, b) == IF a <= b THEN a ELSE b
Max2(a, b) == IF a >= b THEN a ELSE b

\* a / b truncated toward zero, b > 0
TDiv(a, b) == IF a >= 0 THEN a \div b ELSE -((-a) \div b)

\* d * pct/100
Pct(d, pct) == TDiv(d * pct, 100)

-----------------------------------------------------------------------------
(* Blink/wink detector *)

\* EAR = vertical/horizontal if horizontal > 0 else 1.0 ; closed = EAR < 0.25
EarClosedStrictOpen(v, h) == h > 0 /\ 100 * v <= EYE_AR_THRESH * h
EarClosed(v, h) ==
    IF h > 0 THEN 100 * v < EYE_AR_THRESH * h
             ELSE 100 < EYE_AR_THRESH

IsWinkingAnyClosed(left_closed, right_closed) == left_closed \/ right_closed
IsWinking(left_closed, right_closed) ==
    (left_closed /\ ~right_closed) \/ (right_closed /\ ~left_closed)

\* the trigger test, evaluated after the counters were incremented
TriggerEarly(ecc, lbt) == ecc = LONG_BLINK_THRESH - 1 /\ ~lbt
TriggerRepeating(ecc, lbt) == ecc >= LONG_BLINK_THRESH
Trigger(ecc, lbt) == ecc = LONG_BLINK_THRESH /\ ~lbt

\* (a blink flag that is never cleared)
ClearBlinkNever(ib, bc) == ib
\* "if is_blinking and blink_counter == 0: is_blinking = False"
ClearBlink(ib, bc) == IF ib /\ bc = 0 THEN FALSE ELSE ib

\* "if is_blinking or eyes_closed_counter > 0: continue"
SuppressedOnlyBlink(ib, ecc) == ib
\* suppression that ends after the first frame of a hold
SuppressedFirstFrame(ib, ecc) == ib \/ (ecc > 0 /\ ecc < EYE_AR_CONSEC_FRAMES)
Suppressed(ib, ecc) == ib \/ ecc > 0

-----------------------------------------------------------------------------
(* Gaze stabilizer *)

EmaNoseFrozen(ema, raw) == ema
\* smoothing whose weight depends on how many iterations the loop has made
EmaNoseTimed(ema, raw) == ema + Pct(raw - ema, EMA_NOSE_PCT * (1 + (frames % 2)))
\* ema += (raw - ema) * 0.10
EmaNose(ema, raw) == ema + Pct(raw - ema, EMA_NOSE_PCT)

\* the quotient measured from the upper end of the range
NormalizeFromTop(v, lo, hi) == TDiv((hi - v) * NormScale * (IF hi > lo THEN 1 ELSE -1), Abs(hi - lo))
\* (v - lo) / (hi - lo), hi /= lo
Normalize(v, lo, hi) == TDiv((v - lo) * NormScale * (IF hi > lo THEN 1 ELSE -1), Abs(hi - lo))

\* the snap with the bound 0.08 included
DeadzoneInclusive(n) == IF Abs(n - NormScale \div 2) <= DEADZONE THEN NormScale \div 2 ELSE n
\* the center deadzone of lines 175-179
Deadzone(n) == IF Abs(n - NormScale \div 2) < DEADZONE THEN NormScale \div 2 ELSE n

Clamp01None(n) == n
Clamp01(n) == Max2(0, Min2(NormScale, n))

\* norm * screen dimension, in 1/PxScale px
ToScreen(n, dim) == TDiv(n * dim * PxScale, NormScale)

\* the test with a distance of exactly 8 px counted as far
FarOrAtSnapDist(dx, dy) ==
    \/ Abs(dx) > SNAP_DIST * PxScale
    \/ Abs(dy) > SNAP_DIST * PxScale
    \/ dx * dx + dy * dy >= (SNAP_DIST * PxScale) * (SNAP_DIST * PxScale)
\* sqrt(dx^2 + dy^2) > 8, decided without squaring a distance that is far off
FarFromTarget(dx, dy) ==
    \/ Abs(dx) > SNAP_DIST * PxScale
    \/ Abs(dy) > SNAP_DIST * PxScale
    \/ dx * dx + dy * dy > (SNAP_DIST * PxScale) * (SNAP_DIST * PxScale)

DampOvershoot(cur, tgt, far) == IF far THEN cur + Pct(tgt - cur, 100 + CURSOR_PCT) ELSE tgt
Damp(cur, tgt, far) == IF far THEN cur + Pct(tgt - cur, CURSOR_PCT) ELSE tgt

-----------------------------------------------------------------------------
(* Output channel *)

Msg(type, x, y) == [type |-> type, x |-> x, y |-> y]

\* write() then flush(): everything buffered goes out, the buffer is empty
FlushKeep(buf, m) == [buffer |-> buf \o <<m>>, wire |-> <<>>]
Flush(buf, m) == [buffer |-> <<>>, wire |-> buf \o <<m>>]

\* a status line, {"status": ...}; the tag tells it from the 17-byte frames
StatusMsg(status) == [type |-> TYPE_STATUS, status |-> status]

\* print(json.dumps({"status": status}), flush=True)
send_json_status(buf, status) == Flush(buf, StatusMsg(status))
send_binary_gaze(buf, x, y) == Flush(buf, Msg(TYPE_GAZE, x, y))
send_binary_blink(buf, x, y) == Flush(buf, Msg(TYPE_BLINK, x, y))

-----------------------------------------------------------------------------
(* Inputs *)

\* (vertical, horizontal) extents of one eye: EAR 0.15, 0.25, 0.35, and a
\* degenerate eye of zero width
EarInputs == {<<15, 100>>, <<25, 100>>, <<35, 100>>, <<10, 0>>}

\* landmark 4 x / landmark 10 y
WinkNoseX == {55000}
WinkNoseY == {37000}
GazeEars == {<<15, 100>>, <<35, 100>>}
GazeNoseX == {-100000, 55705, 200000}
GazeNoseY == {37260, 150000}

\* a held wink of the left eye, head far to one side
HoldLeftEar == {<<15, 100>>}
HoldRightEar == {<<35, 100>>}
HoldNoseX == {200000}
HoldNoseY == {37260}

ScreenSizes == {<<1440, 900>>, <<640, 480>>}

\* a still head: at the center of the calibrated range, inside it, far outside it
OpenEar == <<35, 100>>
SteadyNoseX == {55705, 57600, 200000}
SteadyNoseY == {37260, 38500, 150000}
SettleScreenSizes == {<<1440, 900>>, <<992, 720>>}

Observation(kind, lc, rc, nx, ny) ==
    [kind |-> kind, left_closed |-> lc, right_closed |-> rc, nose_x |-> nx, nose_y |-> ny]

-----------------------------------------------------------------------------
(***************************************************************************)
(* calibrate.py                                                            *)
(* Raw landmark values are carried in units of 1/CalScale (1e-7), screen   *)
(* fractions in units of 1/NormScale, times in ms.  The per-target         *)
(* standard deviations and the jitter averages derived from them are       *)
(* display-only diagnostics and are not carried.                           *)
(***************************************************************************)
CalScale == 10000000

SETTLE_TIME == 1500
COLLECT_TIME == 3000
POLL_INTERVAL == 33
INTRO_REFRESH == 500
PRECHECK_READS == 5
PRECHECK_SLEEP == 100
PRECHECK_MIN_READINGS == 3
MARGIN == 80                 \* 0.08
MIN_SAMPLES == 10
MIN_VALID_TARGETS == 3
EDGE_LOW == 300              \* 0.3
EDGE_HIGH == 700             \* 0.7
PADDING_PCT == 15            \* 0.15
LIVE_GAIN_PCT == 130         \* 1.3

\* Python's None
None == [py |-> "None"]

Range(f) == {f[i] : i \in DOMAIN f}

\* floor(|a| * n / b) with the sign of a, b > 0, without forming a * n
MulDiv(a, n, b) ==
    LET m == Abs(a)
        q == (m \div b) * n + ((m % b) * n) \div b
    IN  IF a >= 0 THEN q ELSE -q

-----------------------------------------------------------------------------
(* Sample, TargetData *)

Sample(raw_x, raw_y, ema_x_, ema_y_, timestamp) ==
    [raw_x |-> raw_x, raw_y |-> raw_y, ema_x |-> ema_x_, ema_y |-> ema_y_,
     timestamp |-> timestamp]

TargetData(name, sx, sy) == [name |-> name, screen_x |-> sx, screen_y |-> sy, samples |-> <<>>]

\* k-th smallest element of a non-empty sequence of numbers, 1 <= k <= Len(s)
\* (the sequence is bound as the single element of a set: it is evaluated once)
Kth(s, k) ==
    LET kth[t \in {s}] ==
            CHOOSE v \in Range(t) :
                /\ Cardinality({i \in DOMAIN t : t[i] < v}) < k
                /\ Cardinality({i \in DOMAIN t : t[i] <= v}) >= k
    IN  kth[s]

\* statistics.median: the middle element, or the mean of the two middle elements
MedianLow(s) == Kth(s, (Len(s) + 1) \div 2)
\* the element in the middle position of the list as it stands
MedianUnsorted(s) == s[(Len(s) + 1) \div 2]
Median(s) ==
    LET n == Len(s)
    IN  IF n % 2 = 1 THEN Kth(s, (n + 1) \div 2)
        ELSE TDiv(Kth(s, n \div 2) + Kth(s, n \div 2 + 1), 2)

SeqMin(s) == CHOOSE v \in Range(s) : \A w \in Range(s) : v <= w
SeqMax(s) == CHOOSE v \in Range(s) : \A w \in Range(s) : v >= w

\* [s.raw_x for s in t.samples] (axis "x") or [s.raw_y for s in t.samples] (axis "y")
Raw(t, axis) ==
    [i \in DOMAIN t.samples |->
        IF axis = "x" THEN t.samples[i].raw_x ELSE t.samples[i].raw_y]

median_raw_x(t) == IF t.samples = <<>> THEN None ELSE Median(Raw(t, "x"))
median_raw_y(t) == IF t.samples = <<>> THEN None ELSE Median(Raw(t, "y"))

\* the medians of the targets of a group, one per target
PooledMedians(ts, axis) == [i \in DOMAIN ts |-> Median(Raw(ts[i], axis))]
\* [s.raw_<axis> for t in ts for s in t.samples]
RECURSIVE Pooled(_, _)
Pooled(ts, axis) == IF ts = <<>> THEN <<>> ELSE Raw(Head(ts), axis) \o Pooled(Tail(ts), axis)

\* CalibrationApp._build_targets
BuildTargets(mode) ==
    LET m == MARGIN
        one == NormScale
        half == NormScale \div 2
    IN  IF mode = "quick"
        THEN << TargetData("Center", half, half),
                TargetData("Top-Left", m, m),
                TargetData("Top-Right", one - m, m),
                TargetData("Bottom-Left", m, one - m),
                TargetData("Bottom-Right", one - m, one - m) >>
        ELSE << TargetData("Center", half, half),
                TargetData("Top-Left", m, m),
                TargetData("Top-Center", half, m),
                TargetData("Top-Right", one - m, m),
                TargetData("Center-Left", m, half),
                TargetData("Center-Right", one - m, half),
                TargetData("Bottom-Left", m, one - m),
                TargetData("Bottom-Center", half, one - m),
                TargetData("Bottom-Right", one - m, one - m) >>

-----------------------------------------------------------------------------
(* The regression of _compute_and_show_results, lines 417-527 *)

IsValidTargetAny(t) == Len(t.samples) >= 1
IsValidTarget(t) == Len(t.samples) >= MIN_SAMPLES
ValidTargets(ts) == SelectSeq(ts, IsValidTarget)

IsLeft(t) == t.screen_x < EDGE_LOW
IsRight(t) == t.screen_x > EDGE_HIGH
IsTop(t) == t.screen_y < EDGE_LOW
IsBottom(t) == t.screen_y > EDGE_HIGH
IsCenter(t) ==
    /\ EDGE_LOW <= t.screen_x /\ t.screen_x <= EDGE_HIGH
    /\ EDGE_LOW <= t.screen_y /\ t.screen_y <= EDGE_HIGH

\* the extremes of all samples of the two groups
AxisRangeExtremes(lowGroup, highGroup, axis, medians) ==
    IF highGroup /= <<>> /\ lowGroup /= <<>>
    THEN LET all == Pooled(highGroup, axis) \o Pooled(lowGroup, axis)
         IN  [lo |-> SeqMin(all), hi |-> SeqMax(all)]
    ELSE [lo |-> SeqMin(medians), hi |-> SeqMax(medians)]
\* a fixed sign: the high screen edge is taken to give the low raw value
AxisRangeFixedSign(lowGroup, highGroup, axis, medians) ==
    IF highGroup /= <<>> /\ lowGroup /= <<>>
    THEN [lo |-> Median(Pooled(highGroup, axis)), hi |-> Median(Pooled(lowGroup, axis))]
    ELSE [lo |-> SeqMin(medians), hi |-> SeqMax(medians)]
\* pre-padding range of one axis: [lo, hi]
AxisRange(lowGroup, highGroup, axis, medians) ==
    IF highGroup /= <<>> /\ lowGroup /= <<>>
    THEN LET at_high == Median(Pooled(highGroup, axis))
             at_low == Median(Pooled(lowGroup, axis))
             range[h \in {at_high}, l \in {at_low}] == [lo |-> Min2(h, l), hi |-> Max2(h, l)]
         IN  range[at_high, at_low]
    ELSE [lo |-> SeqMin(medians), hi |-> SeqMax(medians)]

\* padding of the upper side only
PaddedHighOnly(r) == [lo |-> r.lo, hi |-> r.hi + Pct(r.hi - r.lo, PADDING_PCT)]
\* symmetric padding of 15 % of the span on each side
Padded(r) ==
    LET pad == Pct(r.hi - r.lo, PADDING_PCT)
    IN  [lo |-> r.lo - pad, hi |-> r.hi + pad]

TargetStats(t) ==
    [name |-> t.name, screen |-> <<t.screen_x, t.screen_y>>,
     nose_median |-> <<median_raw_x(t), median_raw_y(t)>>,
     samples |-> Len(t.samples)]

\* the calibration_result dict of a list of valid targets; the list and the two
\* ranges are bound as the single elements of sets, so that each is evaluated once
CalibrationResult(valid_targets) ==
    LET profile[valid \in {valid_targets}] ==
            LET all_raw_x == [i \in DOMAIN valid |-> median_raw_x(valid[i])]
                all_raw_y == [i \in DOMAIN valid |-> median_raw_y(valid[i])]
                xr == AxisRange(SelectSeq(valid, IsLeft), SelectSeq(valid, IsRight),
                                "x", all_raw_x)
                yr == AxisRange(SelectSeq(valid, IsTop), SelectSeq(valid, IsBottom),
                                "y", all_raw_y)
                center == SelectSeq(valid, IsCenter)
                result[x \in {xr}, y \in {yr}] ==
                    LET xp == Padded(x)
                        yp == Padded(y)
                    IN  [nose_x_min |-> xp.lo, nose_x_max |-> xp.hi,
                         nose_y_min |-> yp.lo, nose_y_max |-> yp.hi,
                         x_range |-> x.hi - x.lo, y_range |-> y.hi - y.lo,
                         center_nose_x |->
                             IF center /= <<>> THEN Median(Pooled(center, "x")) ELSE None,
                         center_nose_y |->
                             IF center /= <<>> THEN Median(Pooled(center, "y")) ELSE None,
                         targets |-> [i \in DOMAIN valid |-> TargetStats(valid[i])]]
            IN  result[xr, yr]
    IN  profile[valid_targets]

-----------------------------------------------------------------------------
(* Files *)

\* /tmp/iris_raw_nose.txt: whitespace-separated tokens; "garbage" when a token
\* that read_raw_nose converts is not a number
RawFile(tokens) == [exists |-> TRUE, tokens |-> tokens, garbage |-> FALSE]
GarbageFile == [exists |-> TRUE, tokens |-> <<0, 0>>, garbage |-> TRUE]
NoFile == [exists |-> FALSE]

\* read_raw_nose
read_raw_nose(f) ==
    IF ~f.exists THEN None
    ELSE IF Len(f.tokens) >= 4
         THEN IF f.garbage THEN None
              ELSE [raw_x |-> f.tokens[1], raw_y |-> f.tokens[2],
                    ema_x |-> f.tokens[3], ema_y |-> f.tokens[4]]
    ELSE IF Len(f.tokens) >= 2
         THEN IF f.garbage THEN None
              ELSE [raw_x |-> f.tokens[1], raw_y |-> f.tokens[2],
                    ema_x |-> f.tokens[1], ema_y |-> f.tokens[2]]
    ELSE None

\* (the digits after the sixth cut off)
Format6Truncated(v) ==
    LET u == CalScale \div 1000000
    IN  IF v >= 0 THEN v \div u ELSE -((-v) \div u)
\* "{v:.6f}": the value in units of 1e-6, ties to even
Format6(v) ==
    LET u == CalScale \div 1000000
        m == Abs(v)
        q == m \div u
        r == m % u
        rounded == IF 2 * r > u \/ (2 * r = u /\ q % 2 = 1) THEN q + 1 ELSE q
    IN  IF v >= 0 THEN rounded ELSE -rounded

\* float("<6 decimals>"), back in units of 1/CalScale
Parse6(t) == t * (CalScale \div 1000000)

\* the text written by _apply_calibration: two comment lines, two value lines
CalContent(r, stamp) ==
    << [key |-> "#", a |-> stamp, b |-> 0],
       [key |-> "#", a |-> 0, b |-> Len(r.targets)],
       [key |-> "nose_x_min", a |-> Format6(r.nose_x_min), b |-> Format6(r.nose_x_max)],
       [key |-> "nose_y_min", a |-> Format6(r.nose_y_min), b |-> Format6(r.nose_y_max)] >>

TextFile(lines) == [exists |-> TRUE, lines |-> lines]

\* the cal dict LiveTestApp._load_calibration builds from one file's lines
RECURSIVE ParseCal(_, _)
ParseCal(lines, cal) ==
    IF lines = <<>> THEN cal
    ELSE LET l == Head(lines)
             cal2 == IF l.key = "nose_x_min"
                     THEN [cal EXCEPT !.nose_x_min = Parse6(l.a), !.nose_x_max = Parse6(l.b),
                                      !.has_x = TRUE]
                     ELSE IF l.key = "nose_y_min"
                     THEN [cal EXCEPT !.nose_y_min = Parse6(l.a), !.nose_y_max = Parse6(l.b),
                                      !.has_y = TRUE]
                     ELSE cal
         IN  ParseCal(Tail(lines), cal2)

EmptyCal == [nose_x_min |-> 0, nose_x_max |-> 0, nose_y_min |-> 0, nose_y_max |-> 0,
             has_x |-> FALSE, has_y |-> FALSE]

\* LiveTestApp._load_calibration: the canonical path first, then the home copy
RECURSIVE LoadCalibration(_)
LoadCalibration(paths) ==
    IF paths = <<>> THEN None
    ELSE LET f == Head(paths)
         IN  IF ~f.exists THEN LoadCalibration(Tail(paths))
             ELSE LET cal == ParseCal(f.lines, EmptyCal)
                  IN  IF cal.has_x /\ cal.has_y
                      THEN [nose_x_min |-> cal.nose_x_min, nose_x_max |-> cal.nose_x_max,
                            nose_y_min |-> cal.nose_y_min, nose_y_max |-> cal.nose_y_max]
                      ELSE LoadCalibration(Tail(paths))

-----------------------------------------------------------------------------
(* Live verification mapping, lines 710-722 and 828-837 *)

\* the division raises ZeroDivisionError when the range is empty
LiveDivides(c) == c.nose_x_max /= c.nose_x_min /\ c.nose_y_max /= c.nose_y_min

\* (v - lo) / (hi - lo)
SignedNormalize(v, lo, hi) ==
    IF hi > lo THEN MulDiv(v - lo, NormScale, hi - lo)
               ELSE -MulDiv(v - lo, NormScale, lo - hi)

\* (no gain)
GainUnity(n) == n
\* 0.5 + (n - 0.5) * 1.3
Gain(n) == NormScale \div 2 + Pct(n - NormScale \div 2, LIVE_GAIN_PCT)

\* h_norm and v_norm after inversion, gain and clamp
LiveNorm(nose, c) ==
    [h |-> Clamp01(Gain(NormScale - SignedNormalize(nose.ema_x, c.nose_x_min, c.nose_x_max))),
     v |-> Clamp01(Gain(SignedNormalize(nose.ema_y, c.nose_y_min, c.nose_y_max)))]

LiveGaze(nose, c, w, h) ==
    LET n == LiveNorm(nose, c)
    IN  [x |-> ToScreen(n.h, w), y |-> ToScreen(n.v, h)]

-----------------------------------------------------------------------------
(* The Tk root and the CalibrationApp handlers.  A handler maps the world      *)
(* w = [app, tk, fs, now] before the call to the world after it.               *)

Timer(cb, due) == [cb |-> cb, due |-> due]

After(w, ms, cb) == [w EXCEPT !.tk.timers = Append(@, Timer(cb, w.now + ms))]
Bind(w, key) == [w EXCEPT !.tk.bindings = @ \cup {key}]
UnbindNothing(w, key) == w
Unbind(w, key) == [w EXCEPT !.tk.bindings = @ \ {key}]
Draw(w, screen) == [w EXCEPT !.tk.canvas = screen, !.tk.gaze = None]

\* targets[idx] with Python's indexing (idx = -1 is the last element)
PyIndexPrev(idx, len) == IF idx < 0 THEN idx + len + 1 ELSE IF idx = 0 THEN 1 ELSE idx
PyIndex(idx, len) == IF idx < 0 THEN idx + len + 1 ELSE idx + 1

\* CalibrationApp.__init__
NewApp(mode, size) ==
    [mode |-> mode, screen_w |-> size[1], screen_h |-> size[2],
     targets |-> BuildTargets(mode), current_target_idx |-> -1,
     phase |-> "intro", phase_start |-> 0, collecting |-> FALSE, done |-> FALSE,
     calibration_result |-> None]

NewTk(keys) ==
    [bindings |-> keys, timers |-> <<>>, canvas |-> "blank", gaze |-> None,
     mainloop |-> FALSE, destroyed |-> FALSE, callback_error |-> "none"]

\* _draw_intro
DrawIntro(w) ==
    LET w1 == Bind(Draw(w, "intro"), "space")
    IN  IF ~w1.app.collecting /\ w1.app.phase = "intro"
        THEN After(w1, INTRO_REFRESH, "_refresh_intro_status")
        ELSE w1

\* _refresh_intro_status
RefreshIntroStatus(w) == IF w.app.phase = "intro" THEN DrawIntro(w) ELSE w

\* _show_error
ShowErrorOffersApply(w, msg) == Bind(Draw(w, msg), "a")
ShowError(w, msg) == Draw(w, msg)

\* _draw_results
DrawResults(w) == Bind(Bind(Draw(w, "results"), "a"), "r")

\* _compute_and_show_results
ComputeAndShowResults(w) ==
    LET w1 == Draw([w EXCEPT !.app.done = TRUE], "blank")
        valid_targets == ValidTargets(w1.app.targets)
    IN  IF Len(valid_targets) < MIN_VALID_TARGETS
        THEN ShowError(w1, "error: not enough data")
        ELSE DrawResults([w1 EXCEPT !.app.calibration_result = CalibrationResult(valid_targets)])

RECURSIVE ShowTarget(_)
RECURSIVE PollLoop(_)

\* _show_target
ShowTarget(w) ==
    IF w.app.current_target_idx >= Len(w.app.targets)
    THEN ComputeAndShowResults(w)
    ELSE PollLoop(Draw([w EXCEPT !.app.phase = "settling",
                                 !.app.phase_start = w.now,
                                 !.app.collecting = FALSE], "target"))

\* _poll_loop
PollLoop(w) ==
    IF w.app.done THEN w
    ELSE IF w.app.current_target_idx >= Len(w.app.targets) THEN w
    ELSE
    LET k == PyIndex(w.app.current_target_idx, Len(w.app.targets))
        elapsed == w.now - w.app.phase_start
    IN  IF w.app.phase = "settling"
        THEN LET w1 == IF elapsed >= SETTLE_TIME
                       THEN [w EXCEPT !.app.phase = "collecting", !.app.phase_start = w.now]
                       ELSE w
             IN  After(Draw(w1, "target"), POLL_INTERVAL, "_poll_loop")
        ELSE IF w.app.phase = "collecting"
        THEN LET nose == read_raw_nose(w.fs.raw_nose)
                 w1 == IF nose /= None
                       THEN [w EXCEPT !.app.targets[k].samples =
                                Append(@, Sample(nose.raw_x, nose.raw_y,
                                                 nose.ema_x, nose.ema_y, w.now))]
                       ELSE w
             IN  IF elapsed >= COLLECT_TIME
                 THEN ShowTarget([w1 EXCEPT !.app.current_target_idx = @ + 1])
                 ELSE After(Draw(w1, "target"), POLL_INTERVAL, "_poll_loop")
        ELSE w

StartCalibrationNoStale(w, burst) ==
    LET readings == SelectSeq([i \in DOMAIN burst |-> read_raw_nose(burst[i])],
                              LAMBDA n : n /= None)
        w1 == [Unbind(w, "space") EXCEPT !.now = @ + PRECHECK_READS * PRECHECK_SLEEP,
                                         !.fs.raw_nose = burst[Len(burst)]]
    IN  IF Len(readings) < PRECHECK_MIN_READINGS
        THEN ShowError(w1, "error: cannot read")
        ELSE ShowTarget([w1 EXCEPT !.app.current_target_idx = 0])
\* _start_calibration; burst is what the five reads of the pre-flight check find
StartCalibration(w, burst) ==
    LET readings == SelectSeq([i \in DOMAIN burst |-> read_raw_nose(burst[i])],
                              LAMBDA n : n /= None)
        raw_xs == {readings[i].raw_x : i \in DOMAIN readings}
        w1 == [Unbind(w, "space") EXCEPT !.now = @ + PRECHECK_READS * PRECHECK_SLEEP,
                                         !.fs.raw_nose = burst[Len(burst)]]
    IN  IF Len(readings) < PRECHECK_MIN_READINGS
        THEN ShowError(w1, "error: cannot read")
        ELSE IF Cardinality(raw_xs) = 1
        THEN ShowError(w1, "error: stale")
        ELSE ShowTarget([w1 EXCEPT !.app.current_target_idx = 0])

\* _apply_calibration; home_ok: the write of the home copy succeeds
ApplyCalibration(w, home_ok) ==
    LET r == w.app.calibration_result
    IN  IF r = None THEN w
        ELSE LET content == CalContent(r, w.now \div 1000)
                 w1 == [w EXCEPT !.fs.calibration = TextFile(content),
                                 !.fs.home_calibration =
                                     IF home_ok THEN TextFile(content) ELSE @,
                                 !.fs.calibration_data =
                                     [exists |-> TRUE,
                                      nose_x_min |-> r.nose_x_min, nose_x_max |-> r.nose_x_max,
                                      nose_y_min |-> r.nose_y_min, nose_y_max |-> r.nose_y_max,
                                      x_range |-> r.x_range, y_range |-> r.y_range]]
             IN  Bind(Draw(w1, "applied"), "t")

RedoKeepsKeys(w) ==
    DrawIntro([w EXCEPT
        !.app.targets = [i \in DOMAIN @ |-> [@[i] EXCEPT !.samples = <<>>]],
        !.app.current_target_idx = -1,
        !.app.done = FALSE,
        !.app.phase = "intro"])
\* (a redo that leaves the collected samples in place)
RedoKeepsSamples(w) ==
    LET w1 == Unbind(Unbind(w, "a"), "r")
    IN  DrawIntro([w1 EXCEPT
            !.app.current_target_idx = -1,
            !.app.done = FALSE,
            !.app.phase = "intro"])
\* _redo
Redo(w) ==
    LET w1 == Unbind(Unbind(w, "a"), "r")
    IN  DrawIntro([w1 EXCEPT
            !.app.targets = [i \in DOMAIN @ |-> [@[i] EXCEPT !.samples = <<>>]],
            !.app.current_target_idx = -1,
            !.app.done = FALSE,
            !.app.phase = "intro"])

\* the body shared by CalibrationApp._live_test_loop and LiveTestApp._loop: draw
\* the gaze point of the current reading, then re-arm the timer; a division by
\* zero leaves the callback before the timer is re-armed
LiveTick(w, cal, sw, sh, cb) ==
    LET w1 == Draw(w, "live")
        nose == read_raw_nose(w.fs.raw_nose)
    IN  IF nose /= None /\ cal /= None
        THEN IF LiveDivides(cal)
             THEN After([w1 EXCEPT !.tk.gaze = LiveGaze(nose, cal, sw, sh)],
                        POLL_INTERVAL, cb)
             ELSE [w1 EXCEPT !.tk.callback_error = "ZeroDivisionError"]
        ELSE After(w1, POLL_INTERVAL, cb)

\* _live_test_loop
LiveTestLoop(w) ==
    LiveTick(w, w.app.calibration_result, w.app.screen_w, w.app.screen_h, "_live_test_loop")

\* _start_live_test
StartLiveTest(w) == LiveTestLoop(Draw(Unbind(w, "t"), "blank"))

\* quit
Quit(w) == [w EXCEPT !.tk.destroyed = TRUE]

\* LiveTestApp._loop
TestLoop(w, cal, size) == LiveTick(w, cal, size[1], size[2], "_loop")

-----------------------------------------------------------------------------
(* eye_tracker.py: the frame loop *)

\* main() up to the frame loop, started with one of the given screen sizes
InitTrackerOn(sizes) ==
    /\ \E s \in sizes :
          /\ screen_width = s[1]
          /\ screen_height = s[2]
          /\ ema_x = (s[1] * PxScale) \div 2
          /\ ema_y = (s[2] * PxScale) \div 2
    /\ ema_nose_x = NoseScale \div 2
    /\ ema_nose_y = NoseScale \div 2
    /\ blink_counter = 0
    /\ is_blinking = FALSE
    /\ eyes_closed_counter = 0
    /\ long_blink_triggered = FALSE
    /\ stdout_buffer = <<>>
    /\ out = <<>>
    /\ running = TRUE
    /\ frames = 0
    /\ last = Observation("init", FALSE, FALSE, 0, 0)
    /\ run = 0
    /\ eyeRun = [left |-> 0, right |-> 0]
    /\ lastGaze = None
    /\ eventsSinceOpen = 0
    /\ program = "eye_tracker"
    /\ app = None
    /\ test_app = None
    /\ tk = NewTk({})
    /\ fs = [raw_nose |-> NoFile, calibration |-> NoFile, home_calibration |-> NoFile,
             calibration_data |-> NoFile]
    /\ now = 0
    /\ srcChanges = 0 /\ introRefreshes = 0 /\ redos = 0 /\ liveTicks = 0

InitTracker == InitTrackerOn(ScreenSizes)

detectorVars == <<blink_counter, is_blinking, eyes_closed_counter, long_blink_triggered>>
stabilizerVars == <<ema_x, ema_y, ema_nose_x, ema_nose_y>>
screenVars == <<screen_width, screen_height>>

\* cap.read() returned ret = False: "continue"
NoFrame(maxFrames) ==
    /\ program = "eye_tracker"
    /\ running
    /\ frames < maxFrames
    /\ frames' = frames + 1
    /\ last' = Observation("noframe", FALSE, FALSE, 0, 0)
    /\ out' = <<>>
    /\ UNCHANGED <<screenVars, detectorVars, stabilizerVars, stdout_buffer, running,
                   run, eyeRun, lastGaze, eventsSinceOpen, program, calVars>>

\* (a no-face frame handled as an eyes-open frame)
NoFaceResets(maxFrames) ==
    /\ program = "eye_tracker"
    /\ running
    /\ frames < maxFrames
    /\ frames' = frames + 1
    /\ last' = Observation("noface", FALSE, FALSE, 0, 0)
    /\ out' = <<>>
    /\ eyes_closed_counter' = 0
    /\ blink_counter' = 0
    /\ long_blink_triggered' = FALSE
    /\ UNCHANGED <<screenVars, is_blinking, stabilizerVars, stdout_buffer, running,
                   run, eyeRun, lastGaze, eventsSinceOpen, program, calVars>>

\* results.multi_face_landmarks is empty: "continue"
NoFace(maxFrames) ==
    /\ program = "eye_tracker"
    /\ running
    /\ frames < maxFrames
    /\ frames' = frames + 1
    /\ last' = Observation("noface", FALSE, FALSE, 0, 0)
    /\ out' = <<>>
    /\ UNCHANGED <<screenVars, detectorVars, stabilizerVars, stdout_buffer, running,
                   run, eyeRun, lastGaze, eventsSinceOpen, program, calVars>>

\* "except Exception: continue"
HandlerBreaks(r) == FALSE
Handler(r) == r

\* (a frame error reported on the output stream)
FrameErrorReports(maxFrames) ==
    /\ program = "eye_tracker"
    /\ running
    /\ frames < maxFrames
    /\ frames' = frames + 1
    /\ last' = Observation("error", FALSE, FALSE, 0, 0)
    /\ out' = <<StatusMsg("error")>>
    /\ running' = Handler(running)
    /\ UNCHANGED <<screenVars, detectorVars, stabilizerVars, stdout_buffer,
                   run, eyeRun, lastGaze, eventsSinceOpen, program, calVars>>

\* cvtColor / face_mesh.process raised
FrameError(maxFrames) ==
    /\ program = "eye_tracker"
    /\ running
    /\ frames < maxFrames
    /\ frames' = frames + 1
    /\ last' = Observation("error", FALSE, FALSE, 0, 0)
    /\ out' = <<>>
    /\ running' = Handler(running)
    /\ UNCHANGED <<screenVars, detectorVars, stabilizerVars, stdout_buffer,
                   run, eyeRun, lastGaze, eventsSinceOpen, program, calVars>>

\* the coordinate of the last GazeUpdate among the messages written, or the one
\* known before if none was written
LatestGaze(before, written) ==
    LET gaze == {i \in DOMAIN written : written[i].type = TYPE_GAZE}
    IN  IF gaze = {} THEN before
        ELSE LET i == CHOOSE k \in gaze : \A j \in gaze : j <= k
             IN  [x |-> written[i].x, y |-> written[i].y]

\* a frame with a detected face: lines 99-200
FaceFrame(le, re, nx, ny) ==
    LET left_closed == EarClosed(le[1], le[2])
        right_closed == EarClosed(re[1], re[2])
        is_winking == IsWinking(left_closed, right_closed)
        fire == is_winking /\ Trigger(eyes_closed_counter + 1, long_blink_triggered)
        ib1 == IF ~is_winking /\ blink_counter >= EYE_AR_CONSEC_FRAMES
               THEN TRUE ELSE is_blinking
        s1 == IF fire THEN send_binary_blink(stdout_buffer, ema_x, ema_y)
                      ELSE [buffer |-> stdout_buffer, wire |-> <<>>]
    IN  /\ program = "eye_tracker"
        /\ running
        /\ frames' = frames + 1
        /\ last' = Observation("face", left_closed, right_closed, nx, ny)
        \* lines 136-155: classification and trigger
        /\ eyes_closed_counter' = IF is_winking THEN eyes_closed_counter + 1 ELSE 0
        /\ blink_counter' = IF is_winking THEN blink_counter + 1 ELSE 0
        /\ long_blink_triggered' = IF is_winking THEN (long_blink_triggered \/ fire) ELSE FALSE
        /\ is_blinking' = ClearBlink(ib1, blink_counter')
        /\ run' = IF left_closed /= right_closed THEN run + 1 ELSE 0
        /\ eyeRun' = [left |-> IF left_closed /\ ~right_closed THEN eyeRun.left + 1 ELSE 0,
                      right |-> IF right_closed /\ ~left_closed THEN eyeRun.right + 1 ELSE 0]
        /\ eventsSinceOpen' = (IF ~left_closed /\ ~right_closed THEN 0 ELSE eventsSinceOpen)
                              + (IF fire THEN 1 ELSE 0)
        \* lines 164-200: suppression, stabilizer, emit
        /\ IF Suppressed(is_blinking', eyes_closed_counter')
           THEN /\ stdout_buffer' = s1.buffer
                /\ out' = s1.wire
                /\ UNCHANGED stabilizerVars
           ELSE /\ ema_nose_x' = EmaNose(ema_nose_x, nx)
                /\ ema_nose_y' = EmaNose(ema_nose_y, ny)
                /\ LET h_norm == Clamp01(Deadzone(Normalize(ema_nose_x', nose_x_min, nose_x_max)))
                       v_norm == Clamp01(Deadzone(Normalize(ema_nose_y', nose_y_min, nose_y_max)))
                       target_x == ToScreen(h_norm, screen_width)
                       target_y == ToScreen(v_norm, screen_height)
                       far == FarFromTarget(target_x - ema_x, target_y - ema_y)
                   IN  /\ ema_x' = Damp(ema_x, target_x, far)
                       /\ ema_y' = Damp(ema_y, target_y, far)
                /\ LET s2 == send_binary_gaze(s1.buffer, ema_x', ema_y')
                   IN  /\ stdout_buffer' = s2.buffer
                       /\ out' = s1.wire \o s2.wire
        /\ lastGaze' = LatestGaze(lastGaze, out')
        /\ UNCHANGED <<screenVars, running, program, calVars>>

Face(maxFrames, leftEars, rightEars, noseXs, noseYs) ==
    /\ frames < maxFrames
    /\ \E le \in leftEars, re \in rightEars, nx \in noseXs, ny \in noseYs :
          FaceFrame(le, re, nx, ny)

\* long wink holds, one head position
NextWink ==
    \/ NoFrame(MaxFramesWink)
    \/ NoFace(MaxFramesWink)
    \/ FrameError(MaxFramesWink)
    \/ Face(MaxFramesWink, EarInputs, EarInputs, WinkNoseX, WinkNoseY)

\* short runs, head positions inside and far outside the calibrated range
NextGaze ==
    \/ NoFrame(MaxFramesGaze)
    \/ NoFace(MaxFramesGaze)
    \/ FrameError(MaxFramesGaze)
    \/ Face(MaxFramesGaze, GazeEars, GazeEars, GazeNoseX, GazeNoseY)

SpecWink == InitTracker /\ [][NextWink]_vars
SpecGaze == InitTracker /\ [][NextGaze]_vars

\* the head is held where the previous frame found it
HeadHeld(nx, ny) == last.kind = "face" => (nx = last.nose_x /\ ny = last.nose_y)

\* a face frame with both eyes open and the head held still
Steady(maxFrames) ==
    /\ frames < maxFrames
    /\ \E nx \in SteadyNoseX, ny \in SteadyNoseY :
          /\ HeadHeld(nx, ny)
          /\ FaceFrame(OpenEar, OpenEar, nx, ny)

\* long runs of frames with open eyes and a still head: the stabilizer settles
NextSettle == Steady(MaxFramesSettle)

SpecSettle == InitTrackerOn(SettleScreenSizes) /\ [][NextSettle]_vars

\* the loop goes on for as long as frames arrive
FairSettle == SpecSettle /\ WF_vars(NextSettle)

\* main() from its first line: the arguments are parsed (lines 38-46), nothing is
\* printed yet and the locals of the loop are not assigned yet
InitMain ==
    /\ \E s \in ScreenSizes :
          /\ screen_width = s[1]
          /\ screen_height = s[2]
    /\ ema_x = 0 /\ ema_y = 0
    /\ ema_nose_x = 0 /\ ema_nose_y = 0
    /\ blink_counter = 0
    /\ is_blinking = FALSE
    /\ eyes_closed_counter = 0
    /\ long_blink_triggered = FALSE
    /\ stdout_buffer = <<>>
    /\ out = <<>>
    /\ running = FALSE
    /\ frames = 0
    /\ last = Observation("launch", FALSE, FALSE, 0, 0)
    /\ run = 0
    /\ eyeRun = [left |-> 0, right |-> 0]
    /\ lastGaze = None
    /\ eventsSinceOpen = 0
    /\ program = "eye_tracker"
    /\ app = None
    /\ test_app = None
    /\ tk = NewTk({})
    /\ fs = [raw_nose |-> NoFile, calibration |-> NoFile, home_calibration |-> NoFile,
             calibration_data |-> NoFile]
    /\ now = 0
    /\ srcChanges = 0 /\ introRefreshes = 0 /\ redos = 0 /\ liveTicks = 0

\* line 48: the started status
PrintStarted ==
    /\ program = "eye_tracker"
    /\ last.kind = "launch"
    /\ LET s == send_json_status(stdout_buffer, "started")
       IN  /\ stdout_buffer' = s.buffer
           /\ out' = s.wire
    /\ last' = Observation("started", FALSE, FALSE, 0, 0)
    /\ UNCHANGED <<screenVars, detectorVars, stabilizerVars, running, frames,
                   run, eyeRun, lastGaze, eventsSinceOpen, program, calVars>>

\* lines 50-76: the capture is opened, the locals of the loop are assigned, the
\* calibrated status is printed and the loop is entered
PrintCalibrated ==
    /\ program = "eye_tracker"
    /\ last.kind = "started"
    /\ ema_x' = (screen_width * PxScale) \div 2
    /\ ema_y' = (screen_height * PxScale) \div 2
    /\ ema_nose_x' = NoseScale \div 2
    /\ ema_nose_y' = NoseScale \div 2
    /\ blink_counter' = 0
    /\ is_blinking' = FALSE
    /\ eyes_closed_counter' = 0
    /\ long_blink_triggered' = FALSE
    /\ LET s == send_json_status(stdout_buffer, "calibrated")
       IN  /\ stdout_buffer' = s.buffer
           /\ out' = s.wire
    /\ running' = TRUE
    /\ last' = Observation("init", FALSE, FALSE, 0, 0)
    /\ UNCHANGED <<screenVars, frames, run, eyeRun, lastGaze, eventsSinceOpen, program, calVars>>

\* the whole of main(): the two status lines, then the frame loop
NextLifecycle ==
    \/ PrintStarted
    \/ PrintCalibrated
    \/ NextGaze

SpecLifecycle == InitMain /\ [][NextLifecycle]_vars

-----------------------------------------------------------------------------
(* Inputs and bounds of the calibration session *)

\* source changes, intro refreshes and redos of one run, taken together
MaxEvents == 2
\* iterations of a live loop
MaxLiveTicks == 2

Modes == {"quick"}

\* winfo_screenwidth() x winfo_screenheight()
CalScreenSizes == {<<1440, 900>>}

\* what the event loop adds to a timer's due time before the callback runs
TimerLags == {267}

\* contents of /tmp/iris_raw_nose.txt
FileA == RawFile(<<5500000, 3700000, 5500000, 3700000>>)
FileAJitter == RawFile(<<5500400, 3700200, 5500100, 3700100>>)
FileB == RawFile(<<6000000, 3600000>>)
SourceFiles == {FileA, FileB, NoFile}

\* what the five reads of the pre-flight check can find
Bursts ==
    { <<NoFile, GarbageFile, FileA, NoFile, FileA>>,
      <<FileA, FileA, FileA, FileA, FileA>>,
      <<FileA, NoFile, FileA, GarbageFile, FileA>>,
      <<FileA, NoFile, FileAJitter, GarbageFile, FileA>>,
      <<FileA, FileAJitter, NoFile, FileA, FileA>> }

\* calibration files left by an earlier session, as LiveTestApp finds them
ProfileLines(xlo, xhi, ylo, yhi) ==
    << [key |-> "#", a |-> 0, b |-> 0],
       [key |-> "nose_x_min", a |-> xlo, b |-> xhi],
       [key |-> "nose_y_min", a |-> ylo, b |-> yhi] >>
StoredProfiles ==
    { NoFile,
      TextFile(ProfileLines(517400, 596700, 354200, 391000)),
      TextFile(ProfileLines(550000, 550000, 370000, 370000)),
      TextFile(<< [key |-> "nose_x_min", a |-> 517400, b |-> 596700] >>) }

-----------------------------------------------------------------------------
World == [app |-> app, tk |-> tk, fs |-> fs, now |-> now]

Commit(w) ==
    /\ app' = w.app
    /\ tk' = w.tk
    /\ fs' = w.fs
    /\ now' = w.now

sessionCounters == <<srcChanges, introRefreshes, redos, liveTicks>>

Events == srcChanges + introRefreshes + redos

TrackerIdle ==
    /\ screen_width = 0 /\ screen_height = 0
    /\ ema_x = 0 /\ ema_y = 0
    /\ ema_nose_x = 0 /\ ema_nose_y = 0
    /\ blink_counter = 0 /\ is_blinking = FALSE
    /\ eyes_closed_counter = 0 /\ long_blink_triggered = FALSE
    /\ stdout_buffer = <<>> /\ out = <<>>
    /\ running = FALSE
    /\ frames = 0
    /\ last = Observation("init", FALSE, FALSE, 0, 0)
    /\ run = 0
    /\ eyeRun = [left |-> 0, right |-> 0]
    /\ lastGaze = None
    /\ eventsSinceOpen = 0

\* python3 calibrate.py [--quick]: CalibrationApp(mode) constructed
InitCal ==
    /\ program = "calibrate"
    /\ TrackerIdle
    /\ \E mode \in Modes, size \in CalScreenSizes : app = NewApp(mode, size)
    /\ test_app = None
    /\ tk = NewTk({"Escape", "q"})
    /\ fs = [raw_nose |-> FileA, calibration |-> NoFile, home_calibration |-> NoFile,
             calibration_data |-> NoFile]
    /\ now = 0
    /\ srcChanges = 0 /\ introRefreshes = 0 /\ redos = 0 /\ liveTicks = 0

\* python3 calibrate.py --test: LiveTestApp.__init__ up to the call of _loop
InitTest ==
    /\ program = "calibrate_test"
    /\ TrackerIdle
    /\ app = None
    /\ tk = NewTk({"Escape", "q"})
    /\ \E c \in StoredProfiles, hc \in StoredProfiles, f \in SourceFiles, size \in ScreenSizes :
          /\ fs = [raw_nose |-> f, calibration |-> c, home_calibration |-> hc,
                   calibration_data |-> NoFile]
          /\ test_app = [cal |-> LoadCalibration(<<c, hc>>),
                         screen_w |-> size[1], screen_h |-> size[2]]
    /\ now = 0
    /\ srcChanges = 0 /\ introRefreshes = 0 /\ redos = 0 /\ liveTicks = 0

Alive == tk.mainloop /\ ~tk.destroyed

\* index of the timer the event loop runs next: the earliest due, oldest first
NextTimer ==
    CHOOSE i \in DOMAIN tk.timers :
        /\ \A j \in DOMAIN tk.timers : tk.timers[i].due <= tk.timers[j].due
        /\ \A j \in 1..(i - 1) : tk.timers[j].due > tk.timers[i].due

RemoveAt(s, i) == SubSeq(s, 1, i - 1) \o SubSeq(s, i + 1, Len(s))

\* (an event loop whose clock stands still)
DispatchedFrozenClock(lag) ==
    LET i == NextTimer
    IN  [World EXCEPT !.tk.timers = RemoveAt(@, i)]
\* the world at the moment the callback of the next timer starts
Dispatched(lag) ==
    LET i == NextTimer
    IN  [World EXCEPT !.tk.timers = RemoveAt(@, i),
                      !.now = Max2(now, tk.timers[i].due) + lag]

TimerDue(cb) == Alive /\ tk.timers /= <<>> /\ tk.timers[NextTimer].cb = cb

\* CalibrationApp.run
Run ==
    /\ program = "calibrate"
    /\ ~tk.mainloop /\ ~tk.destroyed
    /\ Commit(DrawIntro([World EXCEPT !.tk.mainloop = TRUE]))
    /\ UNCHANGED <<trackerVars, program, test_app, sessionCounters>>

\* <space>
KeySpace ==
    /\ program = "calibrate" /\ Alive
    /\ "space" \in tk.bindings
    /\ \E burst \in Bursts : Commit(StartCalibration(World, burst))
    /\ UNCHANGED <<trackerVars, program, test_app, sessionCounters>>

\* <a>
KeyA ==
    /\ program = "calibrate" /\ Alive
    /\ "a" \in tk.bindings
    /\ \E home_ok \in BOOLEAN : Commit(ApplyCalibration(World, home_ok))
    /\ UNCHANGED <<trackerVars, program, test_app, sessionCounters>>

\* <r>
KeyR ==
    /\ program = "calibrate" /\ Alive
    /\ "r" \in tk.bindings
    /\ Events < MaxEvents
    /\ redos' = redos + 1
    /\ Commit(Redo(World))
    /\ UNCHANGED <<trackerVars, program, test_app, srcChanges, introRefreshes, liveTicks>>

\* <t>
KeyT ==
    /\ program = "calibrate" /\ Alive
    /\ "t" \in tk.bindings
    /\ liveTicks < MaxLiveTicks
    /\ liveTicks' = liveTicks + 1
    /\ Commit(StartLiveTest(World))
    /\ UNCHANGED <<trackerVars, program, test_app, srcChanges, introRefreshes, redos>>

\* <Escape>, <q>
KeyQuit ==
    /\ program \in {"calibrate", "calibrate_test"} /\ Alive
    /\ \E k \in {"Escape", "q"} : k \in tk.bindings
    /\ Commit(Quit(World))
    /\ UNCHANGED <<trackerVars, program, test_app, sessionCounters>>

\* after(500, self._refresh_intro_status) comes due
TimerRefreshIntro ==
    /\ program = "calibrate"
    /\ TimerDue("_refresh_intro_status")
    /\ app.phase = "intro" => Events < MaxEvents
    /\ introRefreshes' = IF app.phase = "intro" THEN introRefreshes + 1 ELSE introRefreshes
    /\ \E lag \in TimerLags : Commit(RefreshIntroStatus(Dispatched(lag)))
    /\ UNCHANGED <<trackerVars, program, test_app, srcChanges, redos, liveTicks>>

\* after(POLL_INTERVAL, self._poll_loop) comes due
TimerPoll ==
    /\ program = "calibrate"
    /\ TimerDue("_poll_loop")
    /\ \E lag \in TimerLags : \E d \in {Dispatched(lag)} : \E w \in {PollLoop(d)} : Commit(w)
    /\ UNCHANGED <<trackerVars, program, test_app, sessionCounters>>

\* after(POLL_INTERVAL, self._live_test_loop) comes due
TimerLive ==
    /\ program = "calibrate"
    /\ TimerDue("_live_test_loop")
    /\ liveTicks < MaxLiveTicks
    /\ liveTicks' = liveTicks + 1
    /\ \E lag \in TimerLags : Commit(LiveTestLoop(Dispatched(lag)))
    /\ UNCHANGED <<trackerVars, program, test_app, srcChanges, introRefreshes, redos>>

\* the writer of the raw-nose file replaces its content
SourceChangePoint ==
    \/ program = "calibrate" /\ tk.canvas = "target" /\ app.phase = "collecting"
         /\ \/ now = app.phase_start
            \/ Len(app.targets[PyIndex(app.current_target_idx, Len(app.targets))].samples)
                  = MIN_SAMPLES \div 2
    \/ tk.canvas = "live"

SourceChange ==
    /\ program \in {"calibrate", "calibrate_test"} /\ Alive
    /\ Events < MaxEvents
    /\ SourceChangePoint
    /\ srcChanges' = srcChanges + 1
    /\ \E f \in SourceFiles \ {fs.raw_nose} : fs' = [fs EXCEPT !.raw_nose = f]
    /\ UNCHANGED <<trackerVars, program, app, test_app, tk, now,
                   introRefreshes, redos, liveTicks>>

\* LiveTestApp.__init__ calls self._loop(), then main calls app.run(); an
\* exception in that first call ends the process
TestStart ==
    /\ program = "calibrate_test"
    /\ ~tk.mainloop /\ ~tk.destroyed
    /\ liveTicks' = liveTicks + 1
    /\ LET w == TestLoop(World, test_app.cal, <<test_app.screen_w, test_app.screen_h>>)
       IN  IF w.tk.callback_error = "none"
           THEN Commit([w EXCEPT !.tk.mainloop = TRUE])
           ELSE Commit([w EXCEPT !.tk.destroyed = TRUE])
    /\ UNCHANGED <<trackerVars, program, test_app, srcChanges, introRefreshes, redos>>

\* after(POLL_INTERVAL, self._loop) comes due
TimerTestLoop ==
    /\ program = "calibrate_test"
    /\ TimerDue("_loop")
    /\ liveTicks < MaxLiveTicks
    /\ liveTicks' = liveTicks + 1
    /\ \E lag \in TimerLags :
          Commit(TestLoop(Dispatched(lag), test_app.cal,
                          <<test_app.screen_w, test_app.screen_h>>))
    /\ UNCHANGED <<trackerVars, program, test_app, srcChanges, introRefreshes, redos>>

NextCal ==
    \/ Run
    \/ KeySpace
    \/ KeyA
    \/ KeyR
    \/ KeyT
    \/ KeyQuit
    \/ TimerRefreshIntro
    \/ TimerPoll
    \/ TimerLive
    \/ SourceChange

NextTest ==
    \/ TestStart
    \/ TimerTestLoop
    \/ KeyQuit
    \/ SourceChange

SpecCal == InitCal /\ [][NextCal]_vars
SpecTest == InitTest /\ [][NextTest]_vars

\* a session of calibration runs: the runs and the redo that starts another one,
\* the result not applied
NextRun ==
    \/ Run
    \/ KeySpace
    \/ KeyR
    \/ KeyQuit
    \/ TimerRefreshIntro
    \/ TimerPoll
    \/ SourceChange

SpecRun == InitCal /\ [][NextRun]_vars

\* the Tk event loop runs the callback of a timer that is due
FairRun == SpecRun /\ WF_vars(TimerPoll) /\ WF_vars(TimerRefreshIntro)


-----------------------------------------------------------------------------
(* The edge-group regression applied to given groups of targets, lines 459-478 *)

\* raw values of the samples of one target; the vertical value mirrors the
\* horizontal one, so the low group of one axis is the high group of the other
SamplesOf(xs) ==
    [i \in DOMAIN xs |-> Sample(xs[i], CalScale - xs[i], xs[i], CalScale - xs[i], 0)]

TargetWith(t, xs) == [t EXCEPT !.samples = SamplesOf(xs)]

\* the samples each target of an edge group can hold
GroupInputs ==
    { <<>>,
      << <<6000000, 6100000, 5900000>> >>,
      << <<5200000, 5300000, 5100000>> >>,
      << <<5000000, 5800000>> >>,
      << <<5500000>> >>,
      << <<5000000, 5000000, 5000000>>, <<7000000>> >>,
      << <<5000000, 5800000>>, <<6000000, 6100000, 5900000>> >>,
      << <<5200000, 5300000, 5100000>>, <<5500000>> >>,
      << <<5500000>>, <<5500000>> >> }

LowGroup(g) == [i \in DOMAIN g |-> TargetWith(TargetData("low", MARGIN, MARGIN), g[i])]
HighGroup(g) ==
    [i \in DOMAIN g |->
        TargetWith(TargetData("high", NormScale - MARGIN, NormScale - MARGIN), g[i])]

\* a target in the middle of the screen, in neither edge group
CenterTarget == TargetWith(TargetData("center", NormScale \div 2, NormScale \div 2), <<9000000>>)

\* a target on the left edge at mid height: in the left group, in neither the
\* top nor the bottom group
SideTarget ==
    TargetWith(TargetData("side", MARGIN, NormScale \div 2), <<6500000, 6500000, 6300000>>)
SideInputs == {<<>>, <<SideTarget>>}

\* the valid targets are in hand and the ranges are not computed yet
InitRegression ==
    /\ program = "regression"
    /\ TrackerIdle
    /\ \E lo \in GroupInputs, hi \in GroupInputs, side \in SideInputs :
          app = [valid |-> LowGroup(lo) \o side \o <<CenterTarget>> \o HighGroup(hi),
                 ranges |-> None, result |-> None]
    /\ test_app = None
    /\ tk = NewTk({})
    /\ fs = [raw_nose |-> NoFile, calibration |-> NoFile, home_calibration |-> NoFile,
             calibration_data |-> NoFile]
    /\ now = 0
    /\ srcChanges = 0 /\ introRefreshes = 0 /\ redos = 0 /\ liveTicks = 0

\* lines 423-426 and 459-478 for both axes, then the result of lines 480-527
Regress ==
    /\ program = "regression"
    /\ app.ranges = None
    /\ LET valid == app.valid
           all_raw_x == [i \in DOMAIN valid |-> median_raw_x(valid[i])]
           all_raw_y == [i \in DOMAIN valid |-> median_raw_y(valid[i])]
       IN  app' = [app EXCEPT
                      !.ranges =
                          [x |-> AxisRange(SelectSeq(valid, IsLeft), SelectSeq(valid, IsRight),
                                           "x", all_raw_x),
                           y |-> AxisRange(SelectSeq(valid, IsTop), SelectSeq(valid, IsBottom),
                                           "y", all_raw_y)],
                      !.result = CalibrationResult(valid)]
    /\ UNCHANGED <<trackerVars, program, test_app, tk, fs, now, sessionCounters>>

NextRegression == Regress

SpecRegression == InitRegression /\ [][NextRegression]_vars
-----------------------------------------------------------------------------
(* The per-axis normalization applied to given values: eye_tracker.py lines     *)
(* 171-172 (landmark units) and calibrate.py lines 710-711 (raw-file units)      *)

\* the profile built into the tracker, one axis at a time
TrackerProfiles == {<<nose_x_min, nose_x_max>>, <<nose_y_min, nose_y_max>>}

\* axis ranges of profiles a calibration can produce
LiveProfiles ==
    { <<5174000, 5967000>>, <<3542000, 3910000>>, <<5080000, 6120000>>,
      <<4000000, 6000000>>, <<4999999, 5000001>> }

NormalizePaths == {"stabilizer", "live_h", "live_v"}

\* the ends of the range, its midpoint, a point inside, a point on each side
NormalizeInputs(lo, hi) ==
    {lo, hi, (lo + hi) \div 2, lo + (hi - lo) \div 4, lo - (hi - lo), hi + (hi - lo)}

InitNormalize ==
    /\ program = "normalize"
    /\ TrackerIdle
    /\ \E path \in NormalizePaths :
          \E p \in (IF path = "stabilizer" THEN TrackerProfiles ELSE LiveProfiles) :
             \E v \in NormalizeInputs(p[1], p[2]) :
                app = [path |-> path, lo |-> p[1], hi |-> p[2], v |-> v,
                       applied |-> FALSE, quotient |-> None, norm |-> None]
    /\ test_app = None
    /\ tk = NewTk({})
    /\ fs = [raw_nose |-> NoFile, calibration |-> NoFile, home_calibration |-> NoFile,
             calibration_data |-> NoFile]
    /\ now = 0
    /\ srcChanges = 0 /\ introRefreshes = 0 /\ redos = 0 /\ liveTicks = 0

\* (v - lo) / (hi - lo), then the inversion of the horizontal axis of the live view
NormalizeStep ==
    /\ program = "normalize"
    /\ ~app.applied
    /\ LET q == IF app.path = "stabilizer"
                THEN Normalize(app.v, app.lo, app.hi)
                ELSE SignedNormalize(app.v, app.lo, app.hi)
       IN  app' = [app EXCEPT !.applied = TRUE,
                              !.quotient = q,
                              !.norm = IF app.path = "live_h" THEN NormScale - q ELSE q]
    /\ UNCHANGED <<trackerVars, program, test_app, tk, fs, now, sessionCounters>>

NextNormalize == NormalizeStep

SpecNormalize == InitNormalize /\ [][NextNormalize]_vars

-----------------------------------------------------------------------------
(* The live view applied to a profile the regression has produced:            *)
(* calibrate.py lines 459-488, then lines 703-722                              *)

\* the samples of the targets of an edge group, both groups non-empty
EdgeGroupInputs == GroupInputs \ {<<>>}

\* a target in the middle of the screen whose samples lie between the groups'
InnerTarget == TargetWith(TargetData("center", NormScale \div 2, NormScale \div 2), <<5600000>>)

\* where the smoothed value of the raw file lies on an axis with pre-padding
\* range pre and final range [lo, hi]
LivePoints == {"edge_low", "edge_high", "midpoint", "inside", "below", "above"}
LivePoint(kind, pre, lo, hi) ==
    CASE kind = "edge_low" -> pre.lo
      [] kind = "edge_high" -> pre.hi
      [] kind = "midpoint" -> (lo + hi) \div 2
      [] kind = "inside" -> pre.lo + (pre.hi - pre.lo) \div 4
      [] kind = "below" -> lo - (hi - lo)
      [] kind = "above" -> hi + (hi - lo)

\* the targets are collected, nothing is computed yet
InitLiveView ==
    /\ program = "live_view"
    /\ TrackerIdle
    /\ \E lo \in EdgeGroupInputs, hi \in EdgeGroupInputs, size \in CalScreenSizes :
          app = [valid |-> LowGroup(lo) \o <<InnerTarget>> \o HighGroup(hi),
                 screen_w |-> size[1], screen_h |-> size[2],
                 ranges |-> None, calibration_result |-> None,
                 nose |-> None, drawn |-> FALSE, norm |-> None, gaze |-> None,
                 callback_error |-> "none"]
    /\ test_app = None
    /\ tk = NewTk({})
    /\ fs = [raw_nose |-> NoFile, calibration |-> NoFile, home_calibration |-> NoFile,
             calibration_data |-> NoFile]
    /\ now = 0
    /\ srcChanges = 0 /\ introRefreshes = 0 /\ redos = 0 /\ liveTicks = 0

\* lines 423-527: the ranges before padding and the result
ComputeProfile ==
    /\ program = "live_view"
    /\ app.calibration_result = None
    /\ LET valid == app.valid
           all_raw_x == [i \in DOMAIN valid |-> median_raw_x(valid[i])]
           all_raw_y == [i \in DOMAIN valid |-> median_raw_y(valid[i])]
       IN  app' = [app EXCEPT
                      !.ranges =
                          [x |-> AxisRange(SelectSeq(valid, IsLeft), SelectSeq(valid, IsRight),
                                           "x", all_raw_x),
                           y |-> AxisRange(SelectSeq(valid, IsTop), SelectSeq(valid, IsBottom),
                                           "y", all_raw_y)],
                      !.calibration_result = CalibrationResult(valid)]
    /\ UNCHANGED <<trackerVars, program, test_app, tk, fs, now, sessionCounters>>

\* lines 703-722: one reading of the raw file mapped to the gaze point
LiveView ==
    /\ program = "live_view"
    /\ app.calibration_result /= None
    /\ ~app.drawn
    /\ \E kx \in LivePoints, ky \in LivePoints :
          LET r == app.calibration_result
              vx == LivePoint(kx, app.ranges.x, r.nose_x_min, r.nose_x_max)
              vy == LivePoint(ky, app.ranges.y, r.nose_y_min, r.nose_y_max)
              nose == [raw_x |-> vx, raw_y |-> vy, ema_x |-> vx, ema_y |-> vy]
          IN  app' = IF LiveDivides(r)
                     THEN [app EXCEPT !.nose = nose, !.drawn = TRUE,
                                      !.norm = LiveNorm(nose, r),
                                      !.gaze = LiveGaze(nose, r, app.screen_w, app.screen_h)]
                     ELSE [app EXCEPT !.nose = nose, !.drawn = TRUE,
                                      !.callback_error = "ZeroDivisionError"]
    /\ UNCHANGED <<trackerVars, program, test_app, tk, fs, now, sessionCounters>>

NextLiveView == ComputeProfile \/ LiveView

SpecLiveView == InitLiveView /\ [][NextLiveView]_vars

-----------------------------------------------------------------------------
(* The calibration files from the apply action to the loader of the live test: *)
(* calibrate.py lines 612-631, then lines 762-803                              *)

\* samples with digits after the sixth decimal, as medians of an even number of
\* samples and the padding produce them
FineGroupInputs ==
    { << <<5200437, 5300111, 5100999>> >>,
      << <<6000001>> >>,
      << <<5812345, 5812346>> >> }
PersistGroupInputs == EdgeGroupInputs \cup FineGroupInputs

\* the result screen of a session whose regression gave a profile, with the
\* calibration files an earlier session has left
InitPersist ==
    /\ program = "persist"
    /\ TrackerIdle
    /\ \E lo \in PersistGroupInputs, hi \in PersistGroupInputs, size \in CalScreenSizes :
          app = [calibration_result |->
                     CalibrationResult(LowGroup(lo) \o <<InnerTarget>> \o HighGroup(hi)),
                 screen_w |-> size[1], screen_h |-> size[2]]
    /\ test_app = None
    /\ tk = DrawResults([tk |-> NewTk({"Escape", "q"})]).tk
    /\ \E c \in StoredProfiles, hc \in StoredProfiles :
          fs = [raw_nose |-> NoFile, calibration |-> c, home_calibration |-> hc,
                calibration_data |-> NoFile]
    /\ now = 0
    /\ srcChanges = 0 /\ introRefreshes = 0 /\ redos = 0 /\ liveTicks = 0

\* <a> on the result screen
PersistApply ==
    /\ program = "persist"
    /\ "a" \in tk.bindings /\ tk.canvas /= "applied"
    /\ \E home_ok \in BOOLEAN : Commit(ApplyCalibration(World, home_ok))
    /\ UNCHANGED <<trackerVars, program, test_app, sessionCounters>>

\* /tmp is emptied (a reboot): the canonical file is gone, the home copy stays
TmpCleared ==
    /\ program = "persist"
    /\ fs.calibration.exists
    /\ fs' = [fs EXCEPT !.calibration = NoFile]
    /\ UNCHANGED <<trackerVars, program, app, test_app, tk, now, sessionCounters>>

\* python3 calibrate.py --test: LiveTestApp.__init__ loads the calibration
PersistLoad ==
    /\ program = "persist"
    /\ test_app = None
    /\ test_app' = [cal |-> LoadCalibration(<<fs.calibration, fs.home_calibration>>),
                    screen_w |-> app.screen_w, screen_h |-> app.screen_h]
    /\ UNCHANGED <<trackerVars, program, app, tk, fs, now, sessionCounters>>

NextPersist == PersistApply \/ TmpCleared \/ PersistLoad

SpecPersist == InitPersist /\ [][NextPersist]_vars

-----------------------------------------------------------------------------
\* every path that puts a coordinate on the wire or a gaze point on the canvas:
\* the frame loop with head positions far outside the range, followed by a held
\* wink; a calibration session with its live test; the stand-alone live test
NextScreen ==
    \/ NextGaze
    \/ Face(MaxFramesHold, HoldLeftEar, HoldRightEar, HoldNoseX, HoldNoseY)
    \/ NextCal
    \/ NextTest

SpecScreen == (InitTracker \/ InitCal \/ InitTest) /\ [][NextScreen]_vars

-----------------------------------------------------------------------------
(* Properties of the frame loop *)

EventEmitted == \E i \in 1..Len(out) : out[i].type = TYPE_BLINK
GazeEmitted == \E i \in 1..Len(out) : out[i].type = TYPE_GAZE
FaceProcessed == last.kind = "face"
BothClosed == FaceProcessed /\ last.left_closed /\ last.right_closed
BothOpen == FaceProcessed /\ ~last.left_closed /\ ~last.right_closed
OneClosed == FaceProcessed /\ last.left_closed /= last.right_closed

C2_RearmOnlyAfterBothOpen == eventsSinceOpen <= 1

\* C3: a frame with both eyes closed emits no GazeUpdate and leaves the stabilizer
\* state untouched.
C3_BothClosedSuppressOnly ==
    [][BothClosed' => (~GazeEmitted' /\ UNCHANGED stabilizerVars)]_vars

\* C4: a frame that leaves the hold counter above zero (the trigger frame included)
\* does not run the stabilizer and emits no GazeUpdate.
C4_SuppressedFrameKeepsStabilizer ==
    [][(FaceProcessed' /\ eyes_closed_counter' > 0)
          => (~GazeEmitted' /\ UNCHANGED stabilizerVars)]_vars

C4_Witness ==
    /\ FaceProcessed /\ eyes_closed_counter = 8 /\ EventEmitted
    /\ EmaNose(ema_nose_x, last.nose_x) /= ema_nose_x

\* C5: each loop iteration puts at most one message on the wire; an unsuppressed
\* face frame exactly one GazeUpdate; a suppressed, no-face or unread frame no
\* GazeUpdate; never an event together with a GazeUpdate; nothing stays buffered
\* past the iteration that wrote it.
C5_OneMessagePerFrame ==
    /\ Len(out) <= 1
    /\ stdout_buffer = <<>>
    /\ (FaceProcessed /\ eyes_closed_counter = 0 /\ ~is_blinking)
          => (Len(out) = 1 /\ GazeEmitted
              /\ out[1] = Msg(TYPE_GAZE, ema_x, ema_y))
    /\ (~FaceProcessed \/ eyes_closed_counter > 0 \/ is_blinking) => ~GazeEmitted
    /\ ~(EventEmitted /\ GazeEmitted)

C5_Witness ==
    /\ BothOpen /\ out = <<Msg(TYPE_GAZE, ema_x, ema_y)>> /\ stdout_buffer = <<>>

\* C6: a frame without a face changes neither the detector state nor the
\* stabilizer state, emits nothing and leaves the loop running; a hold that it
\* interrupts keeps its count.
C6_NoFaceFrameIsSkipped ==
    [][(last'.kind = "noface")
          => (/\ UNCHANGED <<detectorVars, stabilizerVars>>
              /\ out' = <<>>
              /\ running'
              /\ run' = run)]_vars

C6_Witness ==
    /\ last.kind = "noface" /\ eyes_closed_counter = 5 /\ run = 5 /\ running

\* C7: an error raised inside one frame's processing is swallowed: nothing is
\* emitted for that frame and the loop is still running afterwards.
C7_ErrorNeverEndsLoop ==
    [][(last'.kind = "error") => (running' /\ out' = <<>>)]_vars

C7_Witness == last.kind = "error" /\ running /\ eyes_closed_counter > 0

-----------------------------------------------------------------------------
(* Properties of the coordinates and of the calibration profile *)

OnScreen(x, y, w, h) ==
    /\ 0 <= x /\ x <= w * PxScale
    /\ 0 <= y /\ y <= h * PxScale

\* the screen the live loop of the running program draws on
LiveScreen ==
    IF program = "calibrate" THEN <<app.screen_w, app.screen_h>>
    ELSE <<test_app.screen_w, test_app.screen_h>>

LiveGazeDrawn == program /= "eye_tracker" /\ tk.gaze /= None

\* the normalized horizontal value of the smoothed nose before the clamp
UnclampedX == Normalize(ema_nose_x, nose_x_min, nose_x_max)

\* C8: every coordinate that is emitted lies on the screen, 0 <= x <= screen_width
\* and 0 <= y <= screen_height, for GazeUpdates and discrete events alike and for
\* raw landmark values far outside the calibrated range; the cursor itself never
\* leaves the rectangle; the gaze point of the live verification obeys the same
\* bound.
C8_CoordinatesOnScreen ==
    /\ program = "eye_tracker" =>
          /\ OnScreen(ema_x, ema_y, screen_width, screen_height)
          /\ \A i \in DOMAIN out :
                OnScreen(out[i].x, out[i].y, screen_width, screen_height)
    /\ LiveGazeDrawn =>
          OnScreen(tk.gaze.x, tk.gaze.y, LiveScreen[1], LiveScreen[2])

\* an event sent after frames whose normalized value was above 1 before the clamp
C8_Witness ==
    /\ program = "eye_tracker"
    /\ EventEmitted
    /\ UnclampedX > NormScale
    /\ out[1].x > (screen_width * PxScale) \div 2
    /\ out[1].x <= screen_width * PxScale

ProducedRangeNonEmpty ==
    (program = "calibrate" /\ app.calibration_result /= None) =>
        /\ app.calibration_result.nose_x_min < app.calibration_result.nose_x_max
        /\ app.calibration_result.nose_y_min < app.calibration_result.nose_y_max

PersistedRangeNonEmpty ==
    \A f \in {fs.calibration, fs.home_calibration} :
        f.exists =>
            LET c == ParseCal(f.lines, EmptyCal)
            IN  /\ c.nose_x_min < c.nose_x_max
                /\ c.nose_y_min < c.nose_y_max

\* C9: every profile a calibration session produces and every profile the apply
\* action persists has axis_min < axis_max on both axes; a range that is empty
\* after padding is rejected before it is written.
C9_ProfileRangeNonEmpty == ProducedRangeNonEmpty /\ PersistedRangeNonEmpty

\* C10: normalization with a profile whose axis_max equals axis_min never divides
\* by zero; it fails with an explicit invalid-calibration condition instead.
C10_DegenerateProfileNeverDivides == tk.callback_error /= "ZeroDivisionError"

-----------------------------------------------------------------------------
(* Properties of the calibration session *)

NotEnoughData == "error: not enough data"
PreflightErrors == {"error: cannot read", "error: stale"}

calFiles == <<fs.calibration, fs.home_calibration, fs.calibration_data>>

\* the step in which the last target finishes and the results are computed
RunFinishes == program = "calibrate" /\ ~app.done /\ app'.done

\* C11: when the last target finishes with fewer than 3 targets holding at least
\* 10 samples, the run ends on the error screen: the run produces no calibration
\* result, the apply key is not bound, and the calibration files stay as they were.
C11_TooFewTargetsEndsInError ==
    [][(RunFinishes /\ Len(ValidTargets(app'.targets)) < MIN_VALID_TARGETS)
          => /\ tk'.canvas = NotEnoughData
             /\ app'.calibration_result = app.calibration_result
             /\ (redos = 0 => app'.calibration_result = None)
             /\ "a" \notin tk'.bindings
             /\ UNCHANGED calFiles]_vars

C11_Witness ==
    /\ program = "calibrate" /\ tk.canvas = NotEnoughData /\ app.done
    /\ Len(ValidTargets(app.targets)) = 2
    /\ app.calibration_result = None /\ "a" \notin tk.bindings

\* sample lists of fewer than 10 samples that could stand in a target's place
FarSample == Sample(9000000, 100000, 9000000, 100000, 0)
AltSamples == { <<>>, <<FarSample>>, [i \in 1..(MIN_SAMPLES - 1) |-> FarSample] }

HasCenter(ts) == SelectSeq(ValidTargets(ts), IsCenter) /= <<>>

\* the profile in r is the one the regression gives for the targets ts
SameProfile(r, ts) ==
    LET r2 == CalibrationResult(ValidTargets(ts))
    IN  /\ r2.nose_x_min = r.nose_x_min /\ r2.nose_x_max = r.nose_x_max
        /\ r2.nose_y_min = r.nose_y_min /\ r2.nose_y_max = r.nose_y_max
        /\ HasCenter(ts) =>
              /\ r2.center_nose_x = r.center_nose_x
              /\ r2.center_nose_y = r.center_nose_y

\* C12: a target with fewer than 10 samples does not contribute: replacing the
\* samples of such a target by any other list of fewer than 10 samples (none, one,
\* nine) changes neither the axis ranges nor the center reference of the profile.
C12_ShortTargetsDoNotContribute ==
    [][(RunFinishes /\ Len(ValidTargets(app'.targets)) >= MIN_VALID_TARGETS)
          => \A i \in DOMAIN app'.targets :
                Len(app'.targets[i].samples) < MIN_SAMPLES =>
                   \A alt \in AltSamples :
                      LET ts2 == [app'.targets EXCEPT ![i].samples = alt]
                      IN  /\ HasCenter(ts2) = HasCenter(app'.targets)
                          /\ SameProfile(app'.calibration_result, ts2)]_vars

C12_Witness ==
    /\ program = "calibrate" /\ app.done /\ tk.canvas = "results"
    /\ app.calibration_result /= None
    /\ \E i \in DOMAIN app.targets :
          /\ Len(app.targets[i].samples) = MIN_SAMPLES \div 2
          /\ \A n \in DOMAIN app.calibration_result.targets :
                app.calibration_result.targets[n].name /= app.targets[i].name

NextWorld == [app |-> app', tk |-> tk', fs |-> fs', now |-> now']

PollTimers(timers) == SelectSeq(timers, LAMBDA t : t.cb = "_poll_loop")

\* the reads of a burst that give a reading, and their horizontal values
Readable(burst) == {i \in DOMAIN burst : read_raw_nose(burst[i]) /= None}
ReadableXs(burst) == {read_raw_nose(burst[i]).raw_x : i \in Readable(burst)}

SpacePressed == program = "calibrate" /\ "space" \in tk.bindings /\ "space" \notin tk'.bindings

\* C13: <space> runs a burst of 5 reads.  Fewer than 3 readable: the unavailable-
\* source error.  Otherwise all readable horizontal values equal: the stale-source
\* error, a different message.  Otherwise SETTLING of the first target.  In the
\* two error outcomes no target phase is entered and no sample is collected.
C13_PreflightOutcomes ==
    [][SpacePressed =>
          \A burst \in Bursts :
             NextWorld = StartCalibration(World, burst) =>
                /\ Len(burst) = PRECHECK_READS
                /\ tk'.canvas = "error: cannot read"
                      <=> Cardinality(Readable(burst)) < PRECHECK_MIN_READINGS
                /\ tk'.canvas = "error: stale"
                      <=> /\ Cardinality(Readable(burst)) >= PRECHECK_MIN_READINGS
                          /\ Cardinality(ReadableXs(burst)) = 1
                /\ tk'.canvas \notin PreflightErrors =>
                      /\ tk'.canvas = "target" /\ app'.phase = "settling"
                      /\ app'.current_target_idx = 0
                /\ tk'.canvas \in PreflightErrors =>
                      /\ app'.phase = "intro"
                      /\ app'.current_target_idx = app.current_target_idx
                      /\ app'.targets = app.targets
                      /\ \A i \in DOMAIN app'.targets : app'.targets[i].samples = <<>>
                      /\ PollTimers(tk'.timers) = <<>>]_vars

C13_Witness ==
    /\ program = "calibrate" /\ tk.canvas = "error: stale"
    /\ app.phase = "intro" /\ "space" \notin tk.bindings
    /\ PollTimers(tk.timers) = <<>>

ErrorShown == program = "calibrate" /\ tk.canvas \in PreflightErrors \cup {NotEnoughData}

\* C14: once a calibration error is on the screen, no timer callback and no key
\* other than quit changes the session again: the screen, the key bindings and the
\* session fields stay as they are; the intro does not come back.
C14_ErrorsAreTerminal ==
    [][ErrorShown =>
          /\ tk'.canvas = tk.canvas
          /\ tk'.bindings = tk.bindings
          /\ app' = app]_vars

\* a step of a calibration run: any step of the session except a redo
RunStep == program = "calibrate" /\ redos' = redos

\* the samples of target i grow by exactly one sample at the end
OneSampleAppended(i) ==
    /\ Len(app'.targets[i].samples) = Len(app.targets[i].samples) + 1
    /\ SubSeq(app'.targets[i].samples, 1, Len(app.targets[i].samples)) = app.targets[i].samples

\* C15: in a run the targets are visited in layout order, one after the other,
\* each through SETTLING then COLLECTING: the index rises by one only on a tick of a
\* COLLECTING phase whose time is up, a sample is appended only in COLLECTING
\* and only to the current target, and a tick in SETTLING (the tick that switches
\* to COLLECTING included) stores nothing.
C15_TargetsInOrderOnePhaseAtATime ==
    [][RunStep =>
          /\ app'.current_target_idx /= app.current_target_idx =>
                \/ /\ app.phase = "intro" /\ app.current_target_idx = -1
                   /\ app'.current_target_idx = 0
                \/ /\ app.phase = "collecting"
                   /\ app'.current_target_idx = app.current_target_idx + 1
                   /\ now' - app.phase_start >= COLLECT_TIME
          /\ \A i \in DOMAIN app.targets :
                app'.targets[i].samples /= app.targets[i].samples =>
                   /\ app.phase = "collecting"
                   /\ i = app.current_target_idx + 1
                   /\ OneSampleAppended(i)
          /\ app.phase = "settling" => app'.targets = app.targets
          /\ (app'.current_target_idx /= app.current_target_idx
                /\ app'.current_target_idx < Len(app.targets)) => app'.phase = "settling"
          /\ (app'.phase = "collecting" /\ app.phase /= "collecting") =>
                /\ app.phase = "settling"
                /\ app'.current_target_idx = app.current_target_idx
                /\ now' - app.phase_start >= SETTLE_TIME
          /\ app'.current_target_idx <= Len(app.targets)]_vars

C15_Witness ==
    /\ program = "calibrate" /\ app.phase = "collecting" /\ app.current_target_idx = 2
    /\ Len(app.targets[1].samples) = MIN_SAMPLES /\ Len(app.targets[2].samples) = MIN_SAMPLES
    /\ Len(app.targets[3].samples) = 3
    /\ app.targets[4].samples = <<>> /\ app.targets[5].samples = <<>>

\* a _poll_loop tick in COLLECTING that finds no reading, for a target that
\* already holds samples
SourceLostInCollecting ==
    /\ program = "calibrate" /\ ~app.done /\ app.phase = "collecting"
    /\ PollTimers(tk'.timers) /= PollTimers(tk.timers)
    /\ read_raw_nose(fs.raw_nose) = None
    /\ app.targets[app.current_target_idx + 1].samples /= <<>>

\* C16: when the source is found absent during a target's COLLECTING phase, the
\* session aborts (no further poll tick is armed) and the samples collected so far
\* for that target are discarded.
C16_SourceLossAbortsCollection ==
    [][SourceLostInCollecting =>
          /\ PollTimers(tk'.timers) = <<>>
          /\ app'.targets[app.current_target_idx + 1].samples = <<>>]_vars

\* C17: poll ticks never overlap: through start, phase changes, target changes,
\* errors and redo there is at most one pending _poll_loop callback, a single
\* chain in which each tick arms the next.
C17_SinglePollChain == Len(PollTimers(tk.timers)) <= 1

C17_Witness ==
    /\ program = "calibrate" /\ redos = 1 /\ app.current_target_idx = 1
    /\ app.phase = "collecting" /\ Len(PollTimers(tk.timers)) = 1
    /\ app.calibration_result /= None

\* C18: the calibration files change only in a step of the apply action, which
\* writes the record of the current result; <a> is bound only while the current
\* run has a result that was computed from at least 3 valid targets, so quitting,
\* errors and redo write nothing.  When the home copy is written it is the same
\* record as the canonical file (a failed write of the home copy leaves it alone).
C18_OnlyApplyWritesProfile ==
    [][program = "calibrate" =>
          /\ ~(UNCHANGED calFiles) =>
                /\ "a" \in tk.bindings
                /\ app.calibration_result /= None
                /\ tk'.canvas = "applied"
                /\ fs'.calibration =
                      TextFile(CalContent(app.calibration_result, now \div 1000))
                /\ fs'.home_calibration \in {fs.home_calibration, fs'.calibration}
          /\ "a" \in tk'.bindings =>
                /\ app'.done
                /\ app'.calibration_result /= None
                /\ Len(ValidTargets(app'.targets)) >= MIN_VALID_TARGETS
                /\ app'.calibration_result = CalibrationResult(ValidTargets(app'.targets))]_vars

C18_Witness ==
    /\ program = "calibrate" /\ tk.canvas = "applied" /\ redos = 1
    /\ fs.calibration.exists /\ fs.home_calibration = fs.calibration
    /\ fs.calibration = TextFile(CalContent(app.calibration_result, now \div 1000))
    /\ app.calibration_result.nose_x_min < app.calibration_result.nose_x_max

-----------------------------------------------------------------------------
(* Properties of the regression *)

\* ascending order, by taking out the least element again and again
RECURSIVE SortedSeq(_)
SortedSeq(s) ==
    IF s = <<>> THEN <<>>
    ELSE LET i == CHOOSE k \in DOMAIN s : \A j \in DOMAIN s : s[k] <= s[j]
         IN  <<s[i]>> \o SortedSeq(SubSeq(s, 1, i - 1) \o SubSeq(s, i + 1, Len(s)))

\* the middle of the sorted values, the mean of the two middle ones for an even count
MiddleValue(s) ==
    LET t == SortedSeq(s)
        n == Len(t)
    IN  IF n % 2 = 1 THEN t[(n + 1) \div 2]
        ELSE (t[n \div 2] + t[n \div 2 + 1]) \div 2

Coordinate(t, axis) == IF axis = "x" THEN t.screen_x ELSE t.screen_y
RawValue(s, axis) == IF axis = "x" THEN s.raw_x ELSE s.raw_y

\* every raw value of every sample of the targets of ts whose coordinate
\* satisfies the test, target after target from the last to the first
RECURSIVE AllValues(_, _, _)
AllValues(ts, axis, low) ==
    IF ts = <<>> THEN <<>>
    ELSE LET t == ts[Len(ts)]
             in_group == IF low THEN Coordinate(t, axis) < EDGE_LOW
                         ELSE Coordinate(t, axis) > EDGE_HIGH
             here == IF in_group
                     THEN [i \in DOMAIN t.samples |-> RawValue(t.samples[i], axis)]
                     ELSE <<>>
         IN  here \o AllValues(SubSeq(ts, 1, Len(ts) - 1), axis, low)

Regressed == program = "regression" /\ app.ranges /= None

PooledLaw(axis, range) ==
    LET low == AllValues(app.valid, axis, TRUE)
        high == AllValues(app.valid, axis, FALSE)
    IN  (low /= <<>> /\ high /= <<>>) =>
           /\ range.lo = Min2(MiddleValue(low), MiddleValue(high))
           /\ range.hi = Max2(MiddleValue(low), MiddleValue(high))

\* C19: per axis, with a non-empty low-edge group (coordinate < 0.3) and a non-empty
\* high-edge group (> 0.7), the pre-padding range is [min(mLow, mHigh),
\* max(mLow, mHigh)], mLow and mHigh being the medians of all raw values of all
\* samples of the group's targets pooled together, not the median of the targets'
\* medians.
C19_RangeFromPooledMedians ==
    Regressed => PooledLaw("x", app.ranges.x) /\ PooledLaw("y", app.ranges.y)

\* a low group of two targets whose pooled median (0.50) is not the median of the
\* two targets' medians (0.60)
C19_Witness ==
    /\ Regressed
    /\ AllValues(app.valid, "x", TRUE) = <<7000000, 5000000, 5000000, 5000000>>
    /\ AllValues(app.valid, "x", FALSE) = <<6000000, 6100000, 5900000>>
    /\ app.ranges.x = [lo |-> 5000000, hi |-> 6000000]

\* a raw value rounded to two decimals, in hundredths
Round2(v) == (v + CalScale \div 200) \div (CalScale \div 100)

\* left group [0.60, 0.61, 0.59], right group [0.52, 0.53, 0.51], ranges computed
ExampleRegressed ==
    /\ Regressed
    /\ AllValues(app.valid, "x", TRUE) = <<6000000, 6100000, 5900000>>
    /\ AllValues(app.valid, "x", FALSE) = <<5200000, 5300000, 5100000>>

\* C20 as stated: for left-group raw values [0.60, 0.61, 0.59] and right-group raw
\* values [0.52, 0.53, 0.51] the pre-padding range is axis_min 0.51, axis_max 0.60
\* to two decimals.
C20_ExampleAsStated ==
    ExampleRegressed => Round2(app.ranges.x.lo) = 51 /\ Round2(app.ranges.x.hi) = 60

\* C20 amended: for the same groups the pre-padding range is axis_min 0.52, the
\* median of the right group, and axis_max 0.60, the median of the left group.
C20_ExampleAsComputed ==
    ExampleRegressed => Round2(app.ranges.x.lo) = 52 /\ Round2(app.ranges.x.hi) = 60

C20_Witness ==
    ExampleRegressed /\ app.ranges.x = [lo |-> 5200000, hi |-> 6000000]

\* the final range [lo, hi] is the pre-padding range pre widened by 15 % of its
\* span on each side
PaddingLaw(pre, lo, hi) ==
    LET span == pre.hi - pre.lo
    IN  /\ 100 * (pre.lo - lo) = 15 * span
        /\ 100 * (hi - pre.hi) = 15 * span
        /\ 100 * (hi - lo) = 130 * span
        /\ lo + hi = pre.lo + pre.hi

EdgeCase(axis) ==
    AllValues(app.valid, axis, TRUE) /= <<>> /\ AllValues(app.valid, axis, FALSE) /= <<>>

\* C21: for any computed pre-padding range [lo, hi] the final range of the profile
\* is [lo - 0.15*(hi-lo), hi + 0.15*(hi-lo)]: the final span is 1.3 times the
\* pre-padding span and the midpoint is unchanged, on both axes, with the range
\* taken from the edge groups and with the fallback range alike; the span the
\* result records is the pre-padding one.
C21_PaddingLaw ==
    Regressed =>
        /\ PaddingLaw(app.ranges.x, app.result.nose_x_min, app.result.nose_x_max)
        /\ PaddingLaw(app.ranges.y, app.result.nose_y_min, app.result.nose_y_max)
        /\ app.result.x_range = app.ranges.x.hi - app.ranges.x.lo
        /\ app.result.y_range = app.ranges.y.hi - app.ranges.y.lo

\* the horizontal range comes from the edge groups, the vertical one from the
\* fallback, and both are widened
C21_Witness ==
    /\ Regressed
    /\ EdgeCase("x") /\ ~EdgeCase("y")
    /\ app.ranges.x.lo < app.ranges.x.hi /\ app.ranges.y.lo < app.ranges.y.hi
    /\ app.result.nose_x_min < app.ranges.x.lo /\ app.result.nose_x_max > app.ranges.x.hi
    /\ app.result.nose_y_min < app.ranges.y.lo /\ app.result.nose_y_max > app.ranges.y.hi

-----------------------------------------------------------------------------
(* Properties of the stabilizer *)

HalfNorm == NormScale \div 2

\* the normalized values of the smoothed landmark, before deadzone and clamp
NormX == Normalize(ema_nose_x, nose_x_min, nose_x_max)
NormY == Normalize(ema_nose_y, nose_y_min, nose_y_max)

InDeadzone(v) == Abs(v - HalfNorm) < DEADZONE

\* the target coordinate that goes with a normalized value v on a screen
\* dimension dim: half the dimension inside the deadzone, v clamped otherwise
SnappedTarget(v, dim) ==
    IF InDeadzone(v) THEN (dim * PxScale) \div 2
    ELSE (Max2(0, Min2(NormScale, v)) * dim * PxScale) \div NormScale

\* a frame that ran the stabilizer
StabilizerRan == FaceProcessed /\ GazeEmitted

\* the cursor after the step is the damping step from the cursor before it
\* toward the target (tx, ty)
MovedToward(tx, ty) ==
    LET far == (tx - ema_x) * (tx - ema_x) + (ty - ema_y) * (ty - ema_y)
                   > (SNAP_DIST * PxScale) * (SNAP_DIST * PxScale)
    IN  IF far
        THEN /\ ema_x' = ema_x + TDiv((tx - ema_x) * CURSOR_PCT, 100)
             /\ ema_y' = ema_y + TDiv((ty - ema_y) * CURSOR_PCT, 100)
        ELSE ema_x' = tx /\ ema_y' = ty

\* C22: on each axis by itself, a normalized value v with |v - 0.5| < 0.08 is
\* mapped as exactly 0.5, so the target coordinate is exactly half the screen
\* dimension, and a value with |v - 0.5| >= 0.08 goes to the clamp unchanged.
C22_DeadzoneSnap ==
    [][StabilizerRan' =>
          MovedToward(SnappedTarget(NormX', screen_width),
                      SnappedTarget(NormY', screen_height))]_vars

\* the horizontal value is inside the deadzone and off its center, the vertical
\* one is outside, and the cursor has arrived: half the width, the bottom edge
C22_Witness ==
    /\ StabilizerRan
    /\ InDeadzone(NormX) /\ NormX /= HalfNorm
    /\ ~InDeadzone(NormY)
    /\ ema_x = (screen_width * PxScale) \div 2
    /\ ema_y = screen_height * PxScale

\* C23: in every normalization path a larger horizontal input gives a strictly
\* smaller normalized horizontal value (before deadzone and clamp), whatever the
\* profile; here for the stabilizer: when a frame raises the smoothed horizontal
\* landmark, the normalized horizontal value falls.
C23_HorizontalInverted ==
    [][(StabilizerRan' /\ ema_nose_x' > ema_nose_x) => NormX' < NormX]_vars

-----------------------------------------------------------------------------
(* Properties of the normalization *)

Normalized == program = "normalize" /\ app.applied

-----------------------------------------------------------------------------
(* Properties of the tracker's start and of its output stream *)

AtProfileCenter(x, y) ==
    /\ 2 * x = nose_x_min + nose_x_max
    /\ 2 * y = nose_y_min + nose_y_max

ScreenCenter == <<(screen_width * PxScale) \div 2, (screen_height * PxScale) \div 2>>

\* C25: before the first frame the smoothed landmark is at the midpoint of each
\* calibrated axis range and the cursor is at the center of the screen, so a first
\* frame whose raw landmark lies at the profile center emits a GazeUpdate at the
\* center of the screen.
C25_StartsAtProfileCenter ==
    program = "eye_tracker" =>
        /\ frames = 0 =>
              /\ AtProfileCenter(ema_nose_x, ema_nose_y)
              /\ <<ema_x, ema_y>> = ScreenCenter
        /\ (frames = 1 /\ StabilizerRan /\ AtProfileCenter(last.nose_x, last.nose_y)) =>
              out = <<Msg(TYPE_GAZE, ScreenCenter[1], ScreenCenter[2])>>

\* what main() carries from one loop iteration to the next
TrackerState ==
    [cursor |-> <<ema_x, ema_y>>, nose |-> <<ema_nose_x, ema_nose_y>>,
     blink_counter |-> blink_counter, is_blinking |-> is_blinking,
     eyes_closed_counter |-> eyes_closed_counter,
     long_blink_triggered |-> long_blink_triggered,
     unflushed |-> stdout_buffer]

NextTrackerState ==
    [cursor |-> <<ema_x', ema_y'>>, nose |-> <<ema_nose_x', ema_nose_y'>>,
     blink_counter |-> blink_counter', is_blinking |-> is_blinking',
     eyes_closed_counter |-> eyes_closed_counter',
     long_blink_triggered |-> long_blink_triggered',
     unflushed |-> stdout_buffer']

\* the state main() enters the loop with on a screen of w x h
StartState(w, h) ==
    [cursor |-> <<(w * PxScale) \div 2, (h * PxScale) \div 2>>,
     nose |-> <<NoseScale \div 2, NoseScale \div 2>>,
     blink_counter |-> 0, is_blinking |-> FALSE, eyes_closed_counter |-> 0,
     long_blink_triggered |-> FALSE, unflushed |-> <<>>]

\* one step of smoothing, and the target of a smoothed value on one axis
Smoothed(ema, raw) == ema + TDiv((raw - ema) * EMA_NOSE_PCT, 100)
TargetOn(v, lo, hi, dim) == SnappedTarget(TDiv((v - lo) * NormScale, hi - lo), dim)

\* the cursor after one damping step toward the target t
Stepped(c, t) ==
    LET dx == t[1] - c[1]
        dy == t[2] - c[2]
    IN  IF dx * dx + dy * dy > (SNAP_DIST * PxScale) * (SNAP_DIST * PxScale)
        THEN <<c[1] + TDiv(dx * CURSOR_PCT, 100), c[2] + TDiv(dy * CURSOR_PCT, 100)>>
        ELSE t

\* the state after an iteration and the messages it sends, as a function of the
\* state before it, of what the iteration is given (o) and of the screen size
Iteration(s, o, w, h) ==
    IF o.kind /= "face" THEN [state |-> s, sent |-> <<>>]
    ELSE
    LET wink == o.left_closed /= o.right_closed
        closed == IF wink THEN s.eyes_closed_counter + 1 ELSE 0
        fire == wink /\ closed = LONG_BLINK_THRESH /\ ~s.long_blink_triggered
        blinking == wink /\ s.is_blinking
        event == IF fire THEN <<Msg(TYPE_BLINK, s.cursor[1], s.cursor[2])>> ELSE <<>>
        s1 == [s EXCEPT !.blink_counter = IF wink THEN @ + 1 ELSE 0,
                        !.eyes_closed_counter = closed,
                        !.long_blink_triggered = wink /\ (@ \/ fire),
                        !.is_blinking = blinking]
        nose == <<Smoothed(s.nose[1], o.nose_x), Smoothed(s.nose[2], o.nose_y)>>
        target == <<TargetOn(nose[1], nose_x_min, nose_x_max, w),
                    TargetOn(nose[2], nose_y_min, nose_y_max, h)>>
        cursor == Stepped(s.cursor, target)
    IN  IF blinking \/ closed > 0
        THEN [state |-> s1, sent |-> event]
        ELSE [state |-> [s1 EXCEPT !.nose = nose, !.cursor = cursor],
              sent |-> event \o <<Msg(TYPE_GAZE, cursor[1], cursor[2])>>]

\* C26: the messages of a run are a function of the sequence of landmark
\* snapshots (frames without a face included), of the profile and of the screen
\* size: the loop starts in a state fixed by the screen size, and every iteration
\* sends messages and leaves a state that are functions of the state before it
\* and of the snapshot alone; no clock, frame count or other state enters.
C26_StabilizerDeterminism ==
    /\ (program = "eye_tracker" => TrackerState = StartState(screen_width, screen_height))
    /\ [][program = "eye_tracker" =>
             LET r == Iteration(TrackerState, last', screen_width, screen_height)
             IN  /\ NextTrackerState = r.state
                 /\ out' = r.sent
                 /\ UNCHANGED screenVars]_vars

\* two iterations that did not run the stabilizer, then a frame that moves the
\* cursor
C26_Witness ==
    /\ program = "eye_tracker" /\ frames = 3
    /\ StabilizerRan /\ <<ema_x, ema_y>> /= ScreenCenter
    /\ <<ema_nose_x, ema_nose_y>> =
          <<Smoothed(NoseScale \div 2, last.nose_x), Smoothed(NoseScale \div 2, last.nose_y)>>
    /\ blink_counter = 0 /\ eyes_closed_counter = 0

-----------------------------------------------------------------------------
(* Properties of the computed profile *)

\* the samples of a target as another session could have collected them: the
\* same raw values in another order (the first sample last), each with another
\* timestamp and other smoothed values
Recollected(t) ==
    LET n == Len(t.samples)
    IN  [t EXCEPT !.samples =
            [i \in 1..n |->
                LET s == t.samples[(i % n) + 1]
                IN  Sample(s.raw_x, s.raw_y, s.ema_x + 12345, s.ema_y - 54321,
                           s.timestamp + 1000 + POLL_INTERVAL * i)]]

RecollectedTargets(ts) == [i \in DOMAIN ts |-> Recollected(ts[i])]

AxisRanges(r) ==
    <<r.nose_x_min, r.nose_x_max, r.nose_y_min, r.nose_y_max, r.x_range, r.y_range>>

-----------------------------------------------------------------------------
(* Properties of the status lines *)

InLoop == program = "eye_tracker" /\ last.kind \notin {"launch", "started"}

StatusSent(o) == \E i \in DOMAIN o : o[i].type = TYPE_STATUS
CoordinateSent(o) == \E i \in DOMAIN o : o[i].type \in {TYPE_GAZE, TYPE_BLINK}

\* C28: the status lines come once each and in lifecycle order: nothing is sent
\* before the started status, the step that sends it sends it alone, the next
\* step sends the calibrated status alone and enters the frame loop, every
\* GazeUpdate and every event is sent from inside the loop, hence after both,
\* and no step of the loop sends a status.
C28_StatusOncePerTransition ==
    /\ (program = "eye_tracker" => (last.kind = "launch" /\ out = <<>>))
    /\ [][program = "eye_tracker" =>
             /\ last.kind = "launch" =>
                   (out' = <<StatusMsg("started")>> /\ last'.kind = "started")
             /\ last.kind = "started" =>
                   (out' = <<StatusMsg("calibrated")>> /\ InLoop')
             /\ InLoop => (InLoop' /\ ~StatusSent(out'))
             /\ CoordinateSent(out') => InLoop]_vars

\* the loop is entered: the calibrated status is the latest line on the stream
C28_Witness ==
    /\ InLoop /\ running /\ frames = 0
    /\ out = <<StatusMsg("calibrated")>>
    /\ <<ema_x, ema_y>> = ScreenCenter

-----------------------------------------------------------------------------
(* Properties of the cursor damping *)

\* the target of the latest stabilizer step
TargetX == ToScreen(Clamp01(Deadzone(NormX)), screen_width)
TargetY == ToScreen(Clamp01(Deadzone(NormY)), screen_height)

\* the squared distance from the cursor to that target, in (1/PxScale px)^2
SquaredDistance == (TargetX - ema_x) * (TargetX - ema_x) + (TargetY - ema_y) * (TargetY - ema_y)

SnapSquared == (SNAP_DIST * PxScale) * (SNAP_DIST * PxScale)

\* C29: in a frame that is not suppressed, when the cursor is more than 8 px
\* from the target the new cursor is cursor + 0.15 * (target - cursor) on both
\* axes, and when it is at most 8 px away, exactly 8 px included, the new
\* cursor is the target itself.
C29_DistanceGatedDamping ==
    [][StabilizerRan' =>
          LET dx == TargetX' - ema_x
              dy == TargetY' - ema_y
          IN  /\ dx * dx + dy * dy > SnapSquared =>
                    /\ ema_x' = ema_x + TDiv(dx * CURSOR_PCT, 100)
                    /\ ema_y' = ema_y + TDiv(dy * CURSOR_PCT, 100)
              /\ dx * dx + dy * dy <= SnapSquared =>
                    /\ ema_x' = TargetX'
                    /\ ema_y' = TargetY']_vars

\* the cursor stands exactly 8 px (6.4 px and 4.8 px) from a target that the
\* clamp holds in the corner of the screen; the next frame puts it on the target
C29_Witness ==
    /\ StabilizerRan
    /\ SquaredDistance = SnapSquared
    /\ <<TargetX, TargetY>> = <<screen_width * PxScale, screen_height * PxScale>>
    /\ NormX > NormScale /\ NormY > NormScale

AtTarget == <<ema_x, ema_y>> = <<TargetX, TargetY>>

\* b lies between a and c
Between(a, b, c) == (a <= b /\ b <= c) \/ (c <= b /\ b <= a)

\* two consecutive stabilizer steps with the same target
SameTargetAgain ==
    /\ StabilizerRan /\ StabilizerRan'
    /\ TargetX' = TargetX /\ TargetY' = TargetY

\* the step of the cursor is along the line to the target, to the rounding of
\* the two coordinates
AlongTheLine ==
    LET dx == TargetX - ema_x
        dy == TargetY - ema_y
    IN  Abs(dx * (ema_y' - ema_y) - dy * (ema_x' - ema_x)) <= Max2(Abs(dx), Abs(dy))

\* the zone of a normalized value in which the mapping is constant: below the
\* range, inside the deadzone, above the range; "moving" elsewhere
Zone(v) ==
    IF v < 0 THEN "below"
    ELSE IF v > NormScale THEN "above"
    ELSE IF InDeadzone(v) THEN "deadzone"
    ELSE "moving"

\* the smoothed landmark and the landmark it is drawn to lie in the same
\* constant zone on both axes: with the head held still the target stays put
TargetFixed ==
    /\ StabilizerRan
    /\ Zone(NormX) /= "moving"
    /\ Zone(NormX) = Zone(Normalize(last.nose_x, nose_x_min, nose_x_max))
    /\ Zone(NormY) /= "moving"
    /\ Zone(NormY) = Zone(Normalize(last.nose_y, nose_y_min, nose_y_max))

\* C30: while the target stays where it is, the cursor does not overshoot and
\* does not lag: from frame to frame its distance to the target does not grow,
\* it stays on the segment from where it was to the target, once on the target
\* it remains there; and a target that stays where it is for good is reached
\* after finitely many frames and never left.
C30_NoOvershootNoLag ==
    /\ [][SameTargetAgain =>
             /\ SquaredDistance' <= SquaredDistance
             /\ Between(ema_x, ema_x', TargetX)
             /\ Between(ema_y, ema_y', TargetY)
             /\ AlongTheLine
             /\ AtTarget => AtTarget']_vars
    /\ TargetFixed ~> []AtTarget

\* the cursor has reached, after a run of damped steps, a target that the
\* clamp holds in the corner of the screen
C30_Witness ==
    /\ StabilizerRan /\ AtTarget /\ frames > 20
    /\ NormX > NormScale /\ NormY > NormScale
    /\ <<ema_x, ema_y>> = <<screen_width * PxScale, screen_height * PxScale>>

\* the data a mirrored camera gives on one axis: each target carries its samples
\* to the opposite side of the screen, so that the low-edge group holds the raw
\* samples the high-edge group held and the other way round
MirroredOn(ts, axis) ==
    [i \in DOMAIN ts |->
        IF axis = "x" THEN [ts[i] EXCEPT !.screen_x = NormScale - @]
        ELSE [ts[i] EXCEPT !.screen_y = NormScale - @]]

\* C31: for collected data in which both edge groups of an axis are non-empty,
\* exchanging the raw samples of the low-edge group with those of the high-edge
\* group gives exactly the same axis_min and axis_max, before and after padding,
\* and axis_min <= axis_max holds for every computed range, the fallback included.
C31_AbsorbsAxisInversion ==
    Regressed =>
        /\ EdgeCase("x") =>
              LET m == CalibrationResult(MirroredOn(app.valid, "x"))
              IN  /\ AllValues(MirroredOn(app.valid, "x"), "x", TRUE)
                        = AllValues(app.valid, "x", FALSE)
                  /\ AllValues(MirroredOn(app.valid, "x"), "x", FALSE)
                        = AllValues(app.valid, "x", TRUE)
                  /\ <<m.nose_x_min, m.nose_x_max, m.x_range>>
                        = <<app.result.nose_x_min, app.result.nose_x_max, app.result.x_range>>
        /\ EdgeCase("y") =>
              LET m == CalibrationResult(MirroredOn(app.valid, "y"))
              IN  /\ AllValues(MirroredOn(app.valid, "y"), "y", TRUE)
                        = AllValues(app.valid, "y", FALSE)
                  /\ AllValues(MirroredOn(app.valid, "y"), "y", FALSE)
                        = AllValues(app.valid, "y", TRUE)
                  /\ <<m.nose_y_min, m.nose_y_max, m.y_range>>
                        = <<app.result.nose_y_min, app.result.nose_y_max, app.result.y_range>>
        /\ app.ranges.x.lo <= app.ranges.x.hi /\ app.ranges.y.lo <= app.ranges.y.hi
        /\ app.result.nose_x_min <= app.result.nose_x_max
        /\ app.result.nose_y_min <= app.result.nose_y_max

\* the low-edge group of the horizontal axis has the higher median (0.60 against
\* 0.52), the orientation of a mirrored camera, and the groups hold different
\* samples, so that the exchange gives other data
C31_Witness ==
    /\ Regressed
    /\ AllValues(app.valid, "x", TRUE) = <<6000000, 6100000, 5900000>>
    /\ AllValues(app.valid, "x", FALSE) = <<5200000, 5300000, 5100000>>
    /\ MirroredOn(app.valid, "x") /= app.valid
    /\ app.ranges.x = [lo |-> 5200000, hi |-> 6000000]
    /\ app.result.nose_x_min = 5080000 /\ app.result.nose_x_max = 6120000

\* every raw value of every sample of every valid target on one axis
ObservedValues(axis) == Pooled(app.valid, axis)

\* the fallback range of one axis is spanned by the observed samples
FallbackFromSamples(axis, range) ==
    ~EdgeCase(axis) =>
        /\ range.lo = SeqMin(ObservedValues(axis))
        /\ range.hi = SeqMax(ObservedValues(axis))

\* C32: when on an axis the low-edge group or the high-edge group of valid
\* targets is empty, the pre-padding axis_min and axis_max are the minimum and
\* the maximum raw value observed on that axis across all samples of all valid
\* targets.
C32_FallbackObservedMinMax ==
    Regressed =>
        /\ FallbackFromSamples("x", app.ranges.x)
        /\ FallbackFromSamples("y", app.ranges.y)

\* C33: a wink event fires only for one sustained eye: it is emitted only when the
\* same eye has been the single closed eye in each of the 8 consecutive frames of
\* the hold; a hold that switches from left-eye-closed to right-eye-closed without
\* both eyes open in between does not accumulate across the switch.
C33_EventOnlyForOneSustainedEye ==
    EventEmitted =>
        \/ eyeRun.left >= LONG_BLINK_THRESH
        \/ eyeRun.right >= LONG_BLINK_THRESH

\* the coordinate of the event on the wire
EventCoordinate ==
    LET i == CHOOSE k \in DOMAIN out : out[k].type = TYPE_BLINK
    IN  [x |-> out[i].x, y |-> out[i].y]

\* the center of the screen as a coordinate on the wire
CenterPoint == [x |-> ScreenCenter[1], y |-> ScreenCenter[2]]

\* C34: the coordinate carried by a discrete event is the cursor position at
\* trigger time, which equals the coordinate of the most recent GazeUpdate emitted
\* before the wink hold began, or the screen center if no GazeUpdate has been
\* emitted yet; frames inside the hold never alter it.
C34_EventCarriesCursorBeforeHold ==
    /\ [](EventEmitted =>
            /\ EventCoordinate = [x |-> ema_x, y |-> ema_y]
            /\ EventCoordinate = IF lastGaze = None THEN CenterPoint ELSE lastGaze)
    /\ [][(run' > 0) => UNCHANGED <<ema_x, ema_y, lastGaze>>]_vars

\* an event after a GazeUpdate that had moved the cursor off the screen center,
\* sent while the head points elsewhere than the cursor
C34_Witness ==
    /\ EventEmitted /\ run = LONG_BLINK_THRESH
    /\ lastGaze /= None /\ lastGaze /= CenterPoint
    /\ EventCoordinate = lastGaze
    /\ EmaNose(ema_nose_x, last.nose_x) /= ema_nose_x

-----------------------------------------------------------------------------
(* Properties of the live view *)

LiveViewDrawn == program = "live_view" /\ app.drawn /\ app.norm /= None

\* n is the normalized value e, to the two roundings of the quotient and of the
\* gain product
Reaches(n, e) == Abs(n - e) < 2

\* the normalized value an axis gives for a reading at a pre-padding edge, at the
\* midpoint of the final range or elsewhere
EdgeLaw(v, n, pre, lo, hi, inverted) ==
    /\ v = pre.lo => Reaches(n, IF inverted THEN NormScale ELSE 0)
    /\ v = pre.hi => Reaches(n, IF inverted THEN 0 ELSE NormScale)
    /\ v = (lo + hi) \div 2 => Reaches(n, NormScale \div 2)
    /\ 0 <= n /\ n <= NormScale

-----------------------------------------------------------------------------
(* Properties of redo and of the live test of a session *)

RedoStep == redos' = redos + 1

ApplyOrRedoBound == "a" \in tk.bindings \/ "r" \in tk.bindings

\* C37: redo fully resets collection: after the redo action every target's sample
\* list is empty, current_target_idx is -1, done is false and the phase is INTRO,
\* so a result computed after a redo depends only on samples collected after that
\* redo; redo also disables the apply and redo keys until a new result is shown.
C37_RedoResetsCollection ==
    /\ [][RedoStep =>
            /\ \A i \in DOMAIN app'.targets : app'.targets[i].samples = <<>>
            /\ app'.current_target_idx = -1
            /\ ~app'.done /\ ~app'.collecting
            /\ app'.phase = "intro" /\ tk'.canvas = "intro"
            /\ ~ApplyOrRedoBound']_vars
    /\ []((program = "calibrate" /\ ApplyOrRedoBound) =>
            /\ app.done
            /\ tk.canvas \in {"results", "applied", "live", "blank"}
            /\ app.calibration_result = CalibrationResult(ValidTargets(app.targets)))

\* a second result, shown after a redo
C37_Witness ==
    /\ program = "calibrate" /\ redos = 1
    /\ tk.canvas = "results" /\ app.done
    /\ "a" \in tk.bindings /\ "r" \in tk.bindings
    /\ app.calibration_result = CalibrationResult(ValidTargets(app.targets))

-----------------------------------------------------------------------------
(* Termination of a calibration run *)

\* the pre-flight check has passed and the targets are being shown
InRun == program = "calibrate" /\ ~app.done /\ app.phase \in {"settling", "collecting"}
Settling == InRun /\ app.phase = "settling"
Collecting == InRun /\ app.phase = "collecting"

\* the last target is finished and the result screen or the error screen is shown
RunEnded ==
    /\ program = "calibrate" /\ app.done
    /\ app.current_target_idx = Len(app.targets)
    /\ tk.canvas \in {"results", NotEnoughData}

\* the window is gone: no timer fires any more
Closed == tk.destroyed

\* C38: once the pre-flight check has passed a calibration run always finishes:
\* as long as poll ticks keep firing and the clock advances, every SETTLING phase
\* ends in the COLLECTING phase of its target, every COLLECTING phase ends,
\* current_target_idx reaches the number of targets and the session reaches the
\* result screen or the error screen, whether or not the source delivers a
\* readable sample.
C38_RunAlwaysFinishes ==
    /\ Settling ~> (Collecting \/ Closed)
    /\ Collecting ~> (Settling \/ RunEnded \/ Closed)
    /\ InRun ~> (RunEnded \/ Closed)

\* a run during which the source stopped delivering has ended on the error screen
C38_Witness ==
    /\ RunEnded /\ tk.canvas = NotEnoughData
    /\ fs.raw_nose = NoFile /\ srcChanges > 0
    /\ \E i \in DOMAIN app.targets : app.targets[i].samples = <<>>

-----------------------------------------------------------------------------
(* The live verification loop of the calibration window *)

\* the pending timers that run the callback cb
Chains(cb) == {i \in DOMAIN tk.timers : tk.timers[i].cb = cb}

\* the live verification loop is running: a tick of it is scheduled
LiveLoopRunning == program = "calibrate" /\ Chains("_live_test_loop") /= {}

\* C39: after the live verification loop has been started from the
\* applied-calibration screen at most one live-test tick chain is ever scheduled,
\* and no sequence of key presses (a, r, t, space) starts a second live-test loop
\* or a new calibration run (intro refresh or poll loop) while the live-test loop
\* is still running.
C39_SingleLiveLoop ==
    /\ [](program = "calibrate" => Cardinality(Chains("_live_test_loop")) <= 1)
    /\ [][LiveLoopRunning =>
            /\ Cardinality(Chains("_live_test_loop")') <= 1
            /\ Cardinality(Chains("_refresh_intro_status")')
                   <= Cardinality(Chains("_refresh_intro_status"))
            /\ Cardinality(Chains("_poll_loop")') <= Cardinality(Chains("_poll_loop"))
            /\ app'.phase = app.phase]_vars

-----------------------------------------------------------------------------
(* Persist/load round trip of the calibration profile *)

ProfileFields == {"nose_x_min", "nose_x_max", "nose_y_min", "nose_y_max"}

\* t is v rounded to 6 decimals: a multiple of 1e-6 at most half of 1e-6 away
Round6Of(v, t) ==
    LET u == CalScale \div 1000000
    IN  t % u = 0 /\ 2 * Abs(t - v) <= u

\* the lines of a file that are not comments
FieldLines(f) == SelectSeq(f.lines, LAMBDA l : l.key /= "#")

\* the file has a line for the x pair and a line for the y pair
HasAllFields(f) ==
    /\ f.exists
    /\ \E i \in DOMAIN f.lines : f.lines[i].key = "nose_x_min"
    /\ \E i \in DOMAIN f.lines : f.lines[i].key = "nose_y_min"

\* the values of the last line of a key among the lines that are not comments
PairOf(f, k) ==
    LET ls == FieldLines(f)
        i == CHOOSE j \in DOMAIN ls :
                 ls[j].key = k /\ \A m \in DOMAIN ls : ls[m].key = k => m <= j
    IN  ls[i]
FieldsOf(f) ==
    LET u == CalScale \div 1000000
    IN  [nose_x_min |-> PairOf(f, "nose_x_min").a * u, nose_x_max |-> PairOf(f, "nose_x_min").b * u,
         nose_y_min |-> PairOf(f, "nose_y_min").a * u, nose_y_max |-> PairOf(f, "nose_y_min").b * u]

\* the step in which LiveTestApp loads the calibration
LoadStep == program = "persist" /\ test_app = None /\ test_app' /= None

\* the canonical file is the one the apply action has written
CanonicalWritten == tk.canvas = "applied" /\ fs.calibration.exists

\* C40: persist/load round trip: a profile written by the apply action is read
\* back by the live-test loader with each of the four fields equal to the written
\* value rounded to 6 decimals; comment lines are ignored; the loader tries the
\* canonical path before the home copy, uses the first file that contains all
\* four fields, and returns no calibration when neither file does.
C40_PersistLoadRoundTrip ==
    [][LoadStep =>
          /\ CanonicalWritten =>
                /\ test_app'.cal /= None
                /\ \A k \in ProfileFields :
                      Round6Of(app.calibration_result[k], test_app'.cal[k])
          /\ test_app'.cal =
                IF HasAllFields(fs.calibration) THEN FieldsOf(fs.calibration)
                ELSE IF HasAllFields(fs.home_calibration) THEN FieldsOf(fs.home_calibration)
                ELSE None]_vars

\* a profile with a digit after the sixth decimal has been applied and loaded
\* back from the canonical file, which starts with comment lines
C40_Witness ==
    /\ program = "persist" /\ CanonicalWritten
    /\ test_app /= None /\ test_app.cal /= None
    /\ fs.calibration.lines[1].key = "#"
    /\ \E k \in ProfileFields : app.calibration_result[k] /= test_app.cal[k]
    /\ \A k \in ProfileFields : Round6Of(app.calibration_result[k], test_app.cal[k])

====
